---- MODULE Spec2Model ----
(***************************************************************************)
(* Model of the chapter-based memory store of sekai-memory-for-chatbot:    *)
(* MemoryUnit (models/memory_unit.py), SimpleMemoryStore                   *)
(* (storage/simple_memory_store.py) and the sequential ingestion loop of   *)
(* generate_memory_sets.py that drives it.                                 *)
(***************************************************************************)
EXTENDS Integers, Sequences, FiniteSets, TLC

(***************************************************************************)
(* Bounds of the model.                                                    *)
(***************************************************************************)
\* the highest chapter number of the input file
MaxChapter == 13
\* number of candidates the ingestion loop resolves in one run
MaxRecords == 3

(***************************************************************************)
(* Optional[...] values: None, or a one-element tuple holding the value.   *)
(***************************************************************************)
None == <<>>
Some(v) == <<v>>

Elems(s) == {s[i] : i \in 1..Len(s)}

Max(a, b) == IF a >= b THEN a ELSE b
Min(a, b) == IF a <= b THEN a ELSE b

(***************************************************************************)
(* Python floats are IEEE-754 binary64.  A float is modelled exactly, as   *)
(* [m, e] standing for m * 2^e with m a 53-bit natural (m = <<>>, e = 0    *)
(* for 0.0).  Naturals wider than a machine word are little-endian         *)
(* sequences of limbs in base 2^14 with no leading zero limb.  Every       *)
(* arithmetic result is rounded to nearest, ties to even.  Subnormals,     *)
(* infinities and NaN do not occur for the values the store computes.      *)
(***************************************************************************)
LimbBits == 14
Base == 16384
MantBits == 53

RECURSIVE Pow2(_)
Pow2(k) == IF k = 0 THEN 1 ELSE 2 * Pow2(k - 1)

RECURSIVE BTrim(_)
BTrim(s) == IF s # <<>> /\ s[Len(s)] = 0 THEN BTrim(SubSeq(s, 1, Len(s) - 1)) ELSE s

RECURSIVE BCarry(_, _)
BCarry(s, c) ==
    IF s = <<>>
    THEN IF c = 0 THEN <<>> ELSE <<c % Base>> \o BCarry(<<>>, c \div Base)
    ELSE <<(s[1] + c) % Base>> \o BCarry(Tail(s), (s[1] + c) \div Base)

BLimb(a, i) == IF i >= 1 /\ i <= Len(a) THEN a[i] ELSE 0

BFromInt(n) == BCarry(<<>>, n)

BAdd(a, b) ==
    BTrim(BCarry([i \in 1..Max(Len(a), Len(b)) |-> BLimb(a, i) + BLimb(b, i)], 0))

RECURSIVE BColumn(_, _, _, _)
\* sum of a[i] * b[k + 1 - i] over i = lo..Len(a)
BColumn(a, b, k, lo) ==
    IF lo > Len(a) THEN 0
    ELSE a[lo] * BLimb(b, k + 1 - lo) + BColumn(a, b, k, lo + 1)

BMul(a, b) ==
    IF a = <<>> \/ b = <<>> THEN <<>>
    ELSE BTrim(BCarry([k \in 1..(Len(a) + Len(b) - 1) |-> BColumn(a, b, k, 1)], 0))

RECURSIVE BCmpFrom(_, _, _)
\* -1, 0, 1 comparing limbs i, i-1, ..., 1 of two naturals
BCmpFrom(a, b, i) ==
    IF i = 0 THEN 0
    ELSE IF BLimb(a, i) < BLimb(b, i) THEN -1
    ELSE IF BLimb(a, i) > BLimb(b, i) THEN 1
    ELSE BCmpFrom(a, b, i - 1)

BCmp(a, b) == BCmpFrom(a, b, Max(Len(a), Len(b)))

\* a * 2^k
BShl(a, k) ==
    LET q == k \div LimbBits
        f == Pow2(k % LimbBits)
    IN  IF a = <<>> THEN <<>>
        ELSE BTrim(BCarry([i \in 1..(Len(a) + q) |->
                              IF i <= q THEN 0 ELSE a[i - q] * f], 0))

\* floor(a / 2^k)
BShr(a, k) ==
    LET q == k \div LimbBits
        r == k % LimbBits
        f == Pow2(r)
        g == Pow2(LimbBits - r)
    IN  IF Len(a) <= q THEN <<>>
        ELSE BTrim([i \in 1..(Len(a) - q) |->
                       (a[i + q] \div f) + (BLimb(a, i + q + 1) % f) * g])

\* bit i of a, bit 0 being the least significant
BBit(a, i) == (BLimb(a, (i \div LimbBits) + 1) \div Pow2(i % LimbBits)) % 2

\* TRUE iff the n lowest bits of a are all zero
BLowZero(a, n) ==
    /\ \A i \in 1..Min(Len(a), n \div LimbBits) : a[i] = 0
    /\ BLimb(a, (n \div LimbBits) + 1) % Pow2(n % LimbBits) = 0

RECURSIVE IntBitLen(_)
IntBitLen(n) == IF n = 0 THEN 0 ELSE 1 + IntBitLen(n \div 2)

BBitLen(a) == IF a = <<>> THEN 0 ELSE LimbBits * (Len(a) - 1) + IntBitLen(a[Len(a)])

RECURSIVE BDivRem(_, _, _)
\* long division of the limbs of a, most significant first, by a small d;
\* i is the limb being divided and r the remainder carried into it:
\* <<quotient limbs i..1 (little-endian), final remainder>>
BDivRem(a, d, ir) ==
    LET i == ir[1]
        r == ir[2]
        cur == r * Base + a[i]
        rest == BDivRem(a, d, <<i - 1, cur % d>>)
    IN  IF i = 0 THEN <<<<>>, r>>
        ELSE <<rest[1] \o <<cur \div d>>, rest[2]>>

FZero == [m |-> <<>>, e |-> 0]

\* the float nearest to m * 2^e (round half to even)
FRound(m, e) ==
    LET n == BBitLen(m)
        k == n - MantBits
        q == BShr(m, k)
        up == /\ BBit(m, k - 1) = 1
              /\ (~BLowZero(m, k - 1) \/ BBit(q, 0) = 1)
        q2 == IF up THEN BAdd(q, <<1>>) ELSE q
    IN  IF n = 0 THEN FZero
        ELSE IF k <= 0 THEN [m |-> BShl(m, -k), e |-> e + k]
        ELSE IF BBitLen(q2) > MantBits THEN [m |-> BShr(q2, 1), e |-> e + k + 1]
        ELSE [m |-> q2, e |-> e + k]

\* the float a decimal literal p/q denotes (0 <= p, 0 < q < 2^16, p/q > 2^-9 or p = 0)
FLit(p, q) ==
    LET d == BDivRem(BShl(BFromInt(p), 64), q, <<Len(BShl(BFromInt(p), 64)), 0>>)
        sticky == IF d[2] = 0 THEN <<>> ELSE <<1>>
    IN  IF p = 0 THEN FZero
        ELSE FRound(BAdd(BShl(BTrim(d[1]), 1), sticky), -65)

\* float(n) for an int n >= 0
FInt(n) == FRound(BFromInt(n), 0)

FAdd(x, y) ==
    LET e == Min(x.e, y.e)
    IN  IF x.m = <<>> THEN y
        ELSE IF y.m = <<>> THEN x
        ELSE FRound(BAdd(BShl(x.m, x.e - e), BShl(y.m, y.e - e)), e)

FMul(x, y) == FRound(BMul(x.m, y.m), x.e + y.e)

\* x < y for floats >= 0
FLt(x, y) ==
    IF y.m = <<>> THEN FALSE
    ELSE IF x.m = <<>> THEN TRUE
    ELSE IF x.e # y.e THEN x.e < y.e
    ELSE BCmp(x.m, y.m) < 0

FLe(x, y) == ~FLt(y, x)

\* Python's min(x, y): y if y < x, else x
FMin(x, y) == IF FLt(y, x) THEN y ELSE x

(***************************************************************************)
(* MemoryUnit (models/memory_unit.py).                                     *)
(***************************************************************************)
\* Python orders strings by code point; the subject names the model uses,
\* in that order.
SubjectOrder == <<"byleth", "dimitri", "user_123", "world">>

StrRank(s) == CHOOSE i \in 1..Len(SubjectOrder) : SubjectOrder[i] = s

RECURSIVE SortedInsert(_, _)
SortedInsert(s, x) ==
    IF s = <<>> THEN <<x>>
    ELSE IF StrRank(x) < StrRank(s[1]) THEN <<x>> \o s
    ELSE <<s[1]>> \o SortedInsert(Tail(s), x)

\* sorted that leaves the list in the order given
sorted_as_given(s) == s

RECURSIVE sorted(_)
sorted(s) == IF s = <<>> THEN <<>> ELSE SortedInsert(sorted(SubSeq(s, 1, Len(s) - 1)), s[Len(s)])

RECURSIVE Join(_, _)
\* sep.join(s)
Join(s, sep) ==
    IF s = <<>> THEN ""
    ELSE IF Len(s) = 1 THEN s[1]
    ELSE s[1] \o sep \o Join(Tail(s), sep)

get_key(self) ==
    Join(sorted(self.subjects), "::") \o "::" \o self.predicate \o "::" \o self.object

\* confidences (in hundredths) the language model reports
Confidences == {50, 99, 100}

\* Confidence(c) is the float the JSON number c/100 parses to
ConfidenceFloat == [c \in Confidences |-> FLit(c, 100)]
Confidence(c) == ConfidenceFloat[c]

\* the float literals of get_update_score
ConfidenceWeight == FLit(3, 10)
\* a recency bonus that grows up to 0.3
WiderRecencyCap == FLit(3, 10)
RecencyCap == FLit(2, 10)
RecencyPerChapter == FLit(5, 100)
HigherConfidenceBonus == FLit(2, 10)
OldMemoryBonus == FLit(1, 10)
ScoreCap == FLit(1, 1)

\* can_update that also accepts a new memory of the same chapter
can_update_same_chapter(self, new_memory) ==
    IF get_key(self) # get_key(new_memory) THEN FALSE
    ELSE IF ~self.is_active THEN FALSE
    ELSE IF new_memory.chapter_start < self.chapter_start THEN FALSE
    ELSE TRUE

\* can_update that does not ask whether the memory is still active
can_update_inactive(self, new_memory) ==
    IF get_key(self) # get_key(new_memory) THEN FALSE
    ELSE IF new_memory.chapter_start <= self.chapter_start THEN FALSE
    ELSE TRUE

can_update(self, new_memory) ==
    IF get_key(self) # get_key(new_memory) THEN FALSE
    ELSE IF ~self.is_active THEN FALSE
    ELSE IF new_memory.chapter_start <= self.chapter_start THEN FALSE
    ELSE TRUE

\* "if cond: score += bonus"
\* ScorePlusIf that grants the bonus whatever the condition
ScorePlusAlways(score, cond, bonus) == FAdd(score, bonus)

ScorePlusIf(score, cond, bonus) == IF cond THEN FAdd(score, bonus) ELSE score

get_update_score(self, new_memory) ==
    IF ~can_update(self, new_memory) THEN FZero
    ELSE FMin(ScoreCap,
           ScorePlusIf(
             ScorePlusIf(
               FAdd(FAdd(FZero, FMul(Confidence(new_memory.confidence), ConfidenceWeight)),
                    FMin(RecencyCap,
                         FMul(FInt(new_memory.chapter_start - self.chapter_start),
                              RecencyPerChapter))),
               FLt(Confidence(self.confidence), Confidence(new_memory.confidence)),
               HigherConfidenceBonus),
             self.chapter_start < new_memory.chapter_start - 5,
             OldMemoryBonus))

(***************************************************************************)
(* SimpleMemoryStore (storage/simple_memory_store.py).                     *)
(*                                                                         *)
(* heap            the MemoryUnit objects, by reference (index)            *)
(* all_memories    dict id -> object, as its items in insertion order      *)
(* chapter_memories dict chapter -> list of objects                        *)
(* uuid_counter    number of uuid4() values drawn so far                   *)
(* processed       number of candidates the ingestion loop has resolved    *)
(* last_call       the last store call: its arguments, its return value    *)
(*                 and the existing memory it chose to update, if any      *)
(* walk            the call of get_memory_evolution in progress: where its *)
(*                 loop stands, its current_id and its evolution list      *)
(* updater         a MemoryUpdater (updates/memory_updater.py): the        *)
(*                 memories of its memory_store and its update_log         *)
(***************************************************************************)
VARIABLES heap, all_memories, chapter_memories, uuid_counter, processed, last_call, walk,
          updater

vars == <<heap, all_memories, chapter_memories, uuid_counter, processed, last_call, walk,
          updater>>

\* key in all_memories
HasId(am, id) == \E i \in 1..Len(am) : am[i].id = id

\* all_memories[id] = ref
DictSet(am, id, ref) ==
    IF HasId(am, id)
    THEN [i \in 1..Len(am) |-> IF am[i].id = id THEN [id |-> id, ref |-> ref] ELSE am[i]]
    ELSE Append(am, [id |-> id, ref |-> ref])

_add_memory_to_chapter(cm, ref, chapter) ==
    IF chapter \in DOMAIN cm
    THEN [cm EXCEPT ![chapter] = Append(@, ref)]
    ELSE [c \in (DOMAIN cm) \cup {chapter} |-> IF c = chapter THEN <<ref>> ELSE cm[c]]


\* uuid4(): the n-th value drawn; distinct draws give distinct ids
uuid4(n) == n

\* add_new_memory that files the memory under its chapter only
add_new_memory_unindexed(st, memory, chapter) ==
    LET id == uuid4(st.uuid_counter + 1)
        ref == Len(st.heap) + 1
        stored == [memory EXCEPT !.id = id,
                                 !.chapter_start = chapter,
                                 !.provenance.chapter = chapter]
    IN  [heap |-> Append(st.heap, stored),
         all_memories |-> st.all_memories,
         chapter_memories |-> _add_memory_to_chapter(st.chapter_memories, ref, chapter),
         uuid_counter |-> st.uuid_counter + 1,
         result |-> ref]

add_new_memory(st, memory, chapter) ==
    LET id == uuid4(st.uuid_counter + 1)
        ref == Len(st.heap) + 1
        stored == [memory EXCEPT !.id = id,
                                 !.chapter_start = chapter,
                                 !.provenance.chapter = chapter]
    IN  [heap |-> Append(st.heap, stored),
         all_memories |-> DictSet(st.all_memories, id, ref),
         chapter_memories |-> _add_memory_to_chapter(st.chapter_memories, ref, chapter),
         uuid_counter |-> st.uuid_counter + 1,
         result |-> ref]

\* the objects (by reference) the new memory could update, in dict order
find_all_candidate_memories(st, memory) ==
    LET existing(i) == st.heap[st.all_memories[i].ref]
        hits == SelectSeq([i \in 1..Len(st.all_memories) |-> i],
                          LAMBDA i : /\ get_key(existing(i)) = get_key(memory)
                                     /\ can_update(existing(i), memory))
    IN  [j \in 1..Len(hits) |-> st.all_memories[hits[j]].ref]

RECURSIVE MinByScore(_, _)
\* the entry with the lowest score instead of the highest
MinByScore(scored, best) ==
    IF scored = <<>> THEN best
    ELSE IF FLt(scored[1].score, best.score) THEN MinByScore(Tail(scored), scored[1])
    ELSE MinByScore(Tail(scored), best)

RECURSIVE MaxByScore(_, _)
\* max(scored, key=score): the first entry that no later entry exceeds
MaxByScore(scored, best) ==
    IF scored = <<>> THEN best
    ELSE IF FLt(best.score, scored[1].score) THEN MaxByScore(Tail(scored), scored[1])
    ELSE MaxByScore(Tail(scored), best)

find_best_update_candidate(st, memory, min_score) ==
    LET all_scored(candidates) ==
            [j \in 1..Len(candidates) |->
                [ref |-> candidates[j],
                 score |-> get_update_score(st.heap[candidates[j]], memory)]]
        above_min(scored) == SelectSeq(scored, LAMBDA x : FLe(min_score, x.score))
        \* None when there is no candidate or no scored candidate is left
        best(scored_candidates) ==
            IF scored_candidates = <<>> THEN None
            ELSE Some(MaxByScore(Tail(scored_candidates), scored_candidates[1]))
    IN  best(above_min(all_scored(find_all_candidate_memories(st, memory))))

\* superseded_version that never replaces the throwaway uuid
superseded_version_stale_link(existing_memory, chapter, throwaway_id, updated_id) ==
    [existing_memory EXCEPT !.is_active = FALSE,
                            !.chapter_end = Some(chapter - 1),
                            !.superseded_by = Some(throwaway_id)]

\* superseded_version that closes the old version at the update chapter
superseded_version_ends_at_chapter(existing_memory, chapter, throwaway_id, updated_id) ==
    [existing_memory EXCEPT !.is_active = FALSE,
                            !.chapter_end = Some(chapter),
                            !.superseded_by = Some(updated_id)]

\* superseded_version that also drops the old version's own back-reference
superseded_version_clears_supersedes(existing_memory, chapter, throwaway_id, updated_id) ==
    [existing_memory EXCEPT !.is_active = FALSE,
                            !.chapter_end = Some(chapter - 1),
                            !.superseded_by = Some(updated_id),
                            !.supersedes = None]

\* superseded_version that closes the old version and leaves it active
superseded_version_still_active(existing_memory, chapter, throwaway_id, updated_id) ==
    [existing_memory EXCEPT !.chapter_end = Some(chapter - 1),
                            !.superseded_by = Some(updated_id)]

\* update_existing_memory, the old version: marked as superseded (first
\* with a throwaway uuid), then linked to the new memory's id
superseded_version(existing_memory, chapter, throwaway_id, updated_id) ==
    LET marked == [existing_memory EXCEPT !.is_active = FALSE,
                                          !.chapter_end = Some(chapter - 1),
                                          !.superseded_by = Some(throwaway_id)]
    IN  [marked EXCEPT !.superseded_by = Some(updated_id)]

\* updated_version that keeps the version number of the new information
updated_version_keeps_version(existing_memory, new_info, chapter, update_reason, id) ==
    [id |-> id,
     mem_type |-> existing_memory.mem_type,
     subjects |-> existing_memory.subjects,
     predicate |-> existing_memory.predicate,
     object |-> existing_memory.object,
     fact_text |-> new_info.fact_text,
     chapter_start |-> chapter,
     chapter_end |-> None,
     visibility |-> existing_memory.visibility,
     confidence |-> new_info.confidence,
     is_active |-> TRUE,
     provenance |-> new_info.provenance,
     version |-> new_info.version,
     supersedes |-> Some(existing_memory.id),
     superseded_by |-> None,
     update_reason |-> Some(update_reason),
     update_confidence |-> Some(new_info.confidence)]

\* update_existing_memory, the new version
updated_version(existing_memory, new_info, chapter, update_reason, id) ==
    [id |-> id,
     mem_type |-> existing_memory.mem_type,
     subjects |-> existing_memory.subjects,
     predicate |-> existing_memory.predicate,
     object |-> existing_memory.object,
     fact_text |-> new_info.fact_text,
     chapter_start |-> chapter,
     chapter_end |-> None,
     visibility |-> existing_memory.visibility,
     confidence |-> new_info.confidence,
     is_active |-> TRUE,
     provenance |-> new_info.provenance,
     version |-> existing_memory.version + 1,
     supersedes |-> Some(existing_memory.id),
     superseded_by |-> None,
     update_reason |-> Some(update_reason),
     update_confidence |-> Some(new_info.confidence)]

update_existing_memory(st, existing_ref, new_info, chapter, update_reason) ==
    LET throwaway_id == uuid4(st.uuid_counter + 1)
        id == uuid4(st.uuid_counter + 2)
        ref == Len(st.heap) + 1
        closed == superseded_version(st.heap[existing_ref], chapter, throwaway_id, id)
        updated_memory == updated_version(closed, new_info, chapter, update_reason, id)
    IN  [heap |-> Append([st.heap EXCEPT ![existing_ref] = closed], updated_memory),
         all_memories |-> DictSet(st.all_memories, id, ref),
         chapter_memories |-> _add_memory_to_chapter(st.chapter_memories, ref, chapter),
         uuid_counter |-> st.uuid_counter + 2,
         result |-> ref]

\* an update threshold of 0.5
HalfUpdateThreshold == FLit(1, 2)

\* update_threshold: float = 0.6
DefaultUpdateThreshold == FLit(6, 10)

\* the float literals 0.8 and 0.6 that grade the update reason
HighScore == FLit(8, 10)
ModerateScore == FLit(6, 10)

smart_update_or_create(st, memory, chapter, update_threshold) ==
    LET update_reason(score) ==
            IF FLt(HighScore, score) THEN "high_confidence_update"
            ELSE IF FLt(ModerateScore, score) THEN "moderate_update"
            ELSE "low_confidence_update"
        resolve(update_candidate) ==
            IF update_candidate # None
            THEN [store |-> update_existing_memory(st, update_candidate[1].ref, memory, chapter,
                                                   update_reason(update_candidate[1].score)),
                  action |-> "updated_existing_score",
                  score |-> Some(update_candidate[1].score),
                  existing |-> Some(update_candidate[1].ref)]
            ELSE [store |-> add_new_memory(st, memory, chapter),
                  action |-> "created_new", score |-> None, existing |-> None]
    IN  resolve(find_best_update_candidate(st, memory, update_threshold))

\* get_memories_at_chapter scanning every chapter list, later chapters too
get_memories_at_chapter_all_chapters(cm, h, chapter) ==
    LET RECURSIVE Scan(_)
        Scan(ch) ==
            IF ch > MaxChapter + 1 THEN <<>>
            ELSE (IF ch \in DOMAIN cm
                  THEN SelectSeq(cm[ch],
                                 LAMBDA ref : /\ h[ref].is_active
                                              /\ (h[ref].chapter_end = None
                                                  \/ h[ref].chapter_end[1] >= chapter))
                  ELSE <<>>) \o Scan(ch + 1)
    IN  Scan(1)

\* get_memories_at_chapter reading the list of the asked chapter only
get_memories_at_chapter_same_chapter(cm, h, chapter) ==
    IF chapter \in DOMAIN cm
    THEN SelectSeq(cm[chapter],
                   LAMBDA ref : /\ h[ref].is_active
                                /\ (h[ref].chapter_end = None
                                    \/ h[ref].chapter_end[1] >= chapter))
    ELSE <<>>

get_memories_at_chapter(cm, h, chapter) ==
    LET RECURSIVE Scan(_)
        Scan(ch) ==
            IF ch > chapter THEN <<>>
            ELSE (IF ch \in DOMAIN cm
                  THEN SelectSeq(cm[ch],
                                 LAMBDA ref : /\ h[ref].is_active
                                              /\ (h[ref].chapter_end = None
                                                  \/ h[ref].chapter_end[1] >= chapter))
                  ELSE <<>>) \o Scan(ch + 1)
    IN  Scan(1)

\* all_memories[id]
DictGet(am, id) == am[CHOOSE i \in 1..Len(am) : am[i].id = id].ref

\* the state of the loop of get_memory_evolution(memory_id) before its
\* first test of "while current_id"
evolution_start(memory_id) ==
    [pc |-> "loop", current_id |-> Some(memory_id), evolution |-> <<>>]

\* evolution_step that appends the memory instead of inserting it in front
evolution_step_append(am, h, w) ==
    IF w.current_id = None THEN [w EXCEPT !.pc = "returned"]
    ELSE IF HasId(am, w.current_id[1])
    THEN [pc |-> "loop",
          current_id |-> h[DictGet(am, w.current_id[1])].supersedes,
          evolution |-> Append(w.evolution, DictGet(am, w.current_id[1]))]
    ELSE [w EXCEPT !.pc = "returned"]

\* one test of "while current_id" and, when it passes, one turn of the loop
\* body: the loop ends (and the method returns evolution) when current_id is
\* None or is not a key of all_memories
evolution_step(am, h, w) ==
    IF w.current_id = None THEN [w EXCEPT !.pc = "returned"]
    ELSE IF HasId(am, w.current_id[1])
    THEN [pc |-> "loop",
          current_id |-> h[DictGet(am, w.current_id[1])].supersedes,
          evolution |-> <<DictGet(am, w.current_id[1])>> \o w.evolution]
    ELSE [w EXCEPT !.pc = "returned"]

RECURSIVE evolution_run(_, _, _)
\* the loop run to its end (it has one only if the walk never comes back to
\* an id)
evolution_run(am, h, w) ==
    IF w.pc = "returned" THEN w.evolution
    ELSE evolution_run(am, h, evolution_step(am, h, w))

get_memory_evolution(am, h, memory_id) == evolution_run(am, h, evolution_start(memory_id))

RECURSIVE InsertByChapter(_, _, _)
\* ref put into a list sorted by chapter_start, behind the entries that do
\* not start later (list.sort is stable)
InsertByChapter(h, s, ref) ==
    IF s = <<>> THEN <<ref>>
    ELSE IF h[ref].chapter_start < h[s[1]].chapter_start THEN <<ref>> \o s
    ELSE <<s[1]>> \o InsertByChapter(h, Tail(s), ref)

RECURSIVE SortByChapter(_, _)
\* timeline.sort(key=lambda x: x.chapter_start)
SortByChapter(h, s) ==
    IF s = <<>> THEN <<>>
    ELSE InsertByChapter(h, SortByChapter(h, SubSeq(s, 1, Len(s) - 1)), s[Len(s)])

\* get_memory_timeline that returns the matches in dict order
get_memory_timeline_unsorted(am, h, canonical_key_) ==
    LET values == [i \in 1..Len(am) |-> am[i].ref]
    IN  SelectSeq(values, LAMBDA ref : get_key(h[ref]) = canonical_key_)

get_memory_timeline(am, h, canonical_key_) ==
    LET values == [i \in 1..Len(am) |-> am[i].ref]
    IN  SortByChapter(h, SelectSeq(values, LAMBDA ref : get_key(h[ref]) = canonical_key_))

(***************************************************************************)
(* The candidates the extraction front-end hands to the store              *)
(* (llm/memory_extractor.py) and the ingestion loop                        *)
(* (generate_memory_sets.py).                                              *)
(***************************************************************************)
\* what the language model answers for the sentences of the synopses: one
\* fact slot stated with low and with full confidence and with its subjects
\* in either order, and a world fact
Extractions ==
    { [mem_type |-> "IC", subjects |-> <<"byleth", "dimitri">>,
       predicate |-> "relationship_status", object |-> "started_affair",
       fact_text |-> "Byleth started an affair with Dimitri.", confidence |-> 50],
      [mem_type |-> "IC", subjects |-> <<"byleth", "dimitri">>,
       predicate |-> "relationship_status", object |-> "started_affair",
       fact_text |-> "Byleth started an affair with Dimitri.", confidence |-> 100],
      [mem_type |-> "IC", subjects |-> <<"dimitri", "byleth">>,
       predicate |-> "relationship_status", object |-> "started_affair",
       fact_text |-> "Dimitri and Byleth are having an affair.", confidence |-> 100],
      [mem_type |-> "WM", subjects |-> <<"world">>,
       predicate |-> "company_status", object |-> "layoffs_announced",
       fact_text |-> "The company announced layoffs.", confidence |-> 100] }

visibility_defaults(mem_type) ==
    IF mem_type = "WM" THEN "global"
    ELSE IF mem_type = "IC" THEN "shared"
    ELSE IF mem_type = "C2U" THEN "private"
    ELSE "shared"

\* _create_memory_unit that closes the memory at its own chapter
_create_memory_unit_closed(memory_data, chapter_number, id) ==
    [id |-> id,
     mem_type |-> memory_data.mem_type,
     subjects |-> memory_data.subjects,
     predicate |-> memory_data.predicate,
     object |-> memory_data.object,
     fact_text |-> memory_data.fact_text,
     chapter_start |-> chapter_number,
     chapter_end |-> Some(chapter_number),
     visibility |-> visibility_defaults(memory_data.mem_type),
     confidence |-> memory_data.confidence,
     is_active |-> TRUE,
     provenance |-> [chapter |-> chapter_number, source |-> "synopsis"],
     version |-> 1,
     supersedes |-> None,
     superseded_by |-> None,
     update_reason |-> None,
     update_confidence |-> None]

_create_memory_unit(memory_data, chapter_number, id) ==
    [id |-> id,
     mem_type |-> memory_data.mem_type,
     subjects |-> memory_data.subjects,
     predicate |-> memory_data.predicate,
     object |-> memory_data.object,
     fact_text |-> memory_data.fact_text,
     chapter_start |-> chapter_number,
     chapter_end |-> None,
     visibility |-> visibility_defaults(memory_data.mem_type),
     confidence |-> memory_data.confidence,
     is_active |-> TRUE,
     provenance |-> [chapter |-> chapter_number, source |-> "synopsis"],
     version |-> 1,
     supersedes |-> None,
     superseded_by |-> None,
     update_reason |-> None,
     update_confidence |-> None]

\* chapter_data.get("chapter_number", i): the chapter numbers of the input
\* file, which need be neither consecutive nor in story order
ChapterNumbers == {1, 2, 6, 7, MaxChapter}

Store == [heap |-> heap, all_memories |-> all_memories,
          chapter_memories |-> chapter_memories, uuid_counter |-> uuid_counter]

Init ==
    /\ heap = <<>>
    /\ all_memories = <<>>
    /\ chapter_memories = <<>>
    /\ uuid_counter = 0
    /\ processed = 0
    /\ last_call = [op |-> "init"]
    /\ walk = [pc |-> "idle", current_id |-> None, evolution |-> <<>>]
    /\ updater = [memory_store |-> <<>>, update_log |-> <<>>]

\* one turn of the loop of process_chapters_sequentially: a memory extracted
\* from a sentence of chapter chapter_number is resolved against the store
ProcessMemory(memory_data, chapter_number) ==
    LET memory == _create_memory_unit(memory_data, chapter_number, uuid4(uuid_counter + 1))
        st == [Store EXCEPT !.uuid_counter = @ + 1]
    IN  /\ processed < MaxRecords
        /\ \E r \in {smart_update_or_create(st, memory, chapter_number, DefaultUpdateThreshold)} :
              /\ heap' = r.store.heap
              /\ all_memories' = r.store.all_memories
              /\ chapter_memories' = r.store.chapter_memories
              /\ uuid_counter' = r.store.uuid_counter
              /\ last_call' = [op |-> "smart_update_or_create", memory |-> memory,
                               chapter |-> chapter_number, result |-> r.store.result,
                               action |-> r.action, score |-> r.score,
                               existing |-> r.existing]
        /\ processed' = processed + 1
        /\ UNCHANGED <<walk, updater>>

Next ==
    \E memory_data \in Extractions, chapter_number \in ChapterNumbers :
        ProcessMemory(memory_data, chapter_number)

Spec == Init /\ [][Next]_vars

(***************************************************************************)
(* A store constructed over an existing file, and the reading of chains    *)
(* from it.                                                                *)
(***************************************************************************)
\* lines a memory file holds
MaxLines == 2
\* turns of the loop of get_memory_evolution that are followed
MaxWalk == 4

\* ids found in memory files, and an id no line of a file carries
FileIds == {101, 102}
AbsentId == 103

\* a line of a memory file: a memory of one fact slot, with the id, the
\* chapter and the supersedes link the file gives it
FileLine(id, chapter_start, supersedes) ==
    [_create_memory_unit([mem_type |-> "IC", subjects |-> <<"byleth", "dimitri">>,
                          predicate |-> "relationship_status",
                          object |-> "started_affair",
                          fact_text |-> "Byleth started an affair with Dimitri.",
                          confidence |-> 100], chapter_start, id)
        EXCEPT !.supersedes = supersedes]

FileLines ==
    {FileLine(id, chapter_start, supersedes) :
        id \in FileIds, chapter_start \in {1, 2},
        supersedes \in {None} \cup {Some(i) : i \in FileIds \cup {AbsentId}}}

\* the memory files: up to MaxLines lines
Files == UNION {[1..n -> FileLines] : n \in 0..MaxLines}

\* one turn of the loop of load_memories: the line becomes a new object,
\* filed under its chapter and set in the id index
load_line(st, memory) ==
    [heap |-> Append(st.heap, memory),
     all_memories |-> DictSet(st.all_memories, memory.id, Len(st.heap) + 1),
     chapter_memories |-> _add_memory_to_chapter(st.chapter_memories, Len(st.heap) + 1,
                                                 memory.chapter_start),
     uuid_counter |-> st.uuid_counter]

RECURSIVE load_memories(_, _)
load_memories(st, lines) ==
    IF lines = <<>> THEN st
    ELSE load_memories(load_line(st, lines[1]), Tail(lines))

\* SimpleMemoryStore(file_path) over a file that exists
LoadMemories(lines) ==
    /\ last_call.op = "init"
    /\ \E st \in {load_memories(Store, lines)} :
          /\ heap' = st.heap
          /\ all_memories' = st.all_memories
          /\ chapter_memories' = st.chapter_memories
          /\ uuid_counter' = st.uuid_counter
    /\ last_call' = [op |-> "load_memories", lines |-> lines]
    /\ UNCHANGED <<processed, walk, updater>>

\* a caller enters get_memory_evolution(memory_id)
StartEvolution(memory_id) ==
    /\ walk.pc # "loop"
    /\ walk' = evolution_start(memory_id)
    /\ UNCHANGED <<heap, all_memories, chapter_memories, uuid_counter, processed, last_call,
                   updater>>

\* the next test of the loop condition and turn of the loop
EvolutionStep ==
    /\ walk.pc = "loop"
    /\ Len(walk.evolution) < MaxWalk
    /\ walk' = evolution_step(all_memories, heap, walk)
    /\ UNCHANGED <<heap, all_memories, chapter_memories, uuid_counter, processed, last_call,
                   updater>>

LoadNext ==
    \/ \E lines \in Files : LoadMemories(lines)
    \/ \E memory_id \in FileIds \cup {AbsentId} : StartEvolution(memory_id)
    \/ EvolutionStep

LoadSpec == Init /\ [][LoadNext]_vars


(***************************************************************************)
(* MemoryUpdater (updates/memory_updater.py) over a MemoryStore.  The      *)
(* module storage.memory_store is not part of the sources; of its store    *)
(* the updater uses get_all_active() and upsert(memory) only.  Memories    *)
(* carry their confidence as a float here, since merging computes one.     *)
(* The wall-clock timestamps of log entries and provenances are left out.  *)
(***************************************************************************)
\* MemoryStore.get_all_active(): the active memories, in store order
get_all_active(ms) == SelectSeq(ms, LAMBDA m : m.is_active)

\* MemoryStore.upsert(memory): replaces the memory of that id, or adds it
upsert(ms, memory) ==
    IF \E i \in 1..Len(ms) : ms[i].id = memory.id
    THEN [i \in 1..Len(ms) |-> IF ms[i].id = memory.id THEN memory ELSE ms[i]]
    ELSE Append(ms, memory)

\* _is_similar_memory that also wants the same object
_is_similar_memory_same_object(existing, new) ==
    IF existing.mem_type # new.mem_type THEN FALSE
    ELSE IF Elems(existing.subjects) # Elems(new.subjects) THEN FALSE
    ELSE IF existing.predicate # new.predicate THEN FALSE
    ELSE IF existing.object # new.object THEN FALSE
    ELSE IF existing.visibility # new.visibility THEN FALSE
    ELSE TRUE

_is_similar_memory(existing, new) ==
    IF existing.mem_type # new.mem_type THEN FALSE
    ELSE IF Elems(existing.subjects) # Elems(new.subjects) THEN FALSE
    ELSE IF existing.predicate # new.predicate THEN FALSE
    ELSE IF existing.visibility # new.visibility THEN FALSE
    ELSE TRUE

RECURSIVE FirstSimilar(_, _)
\* the loop of _find_similar_memory
FirstSimilar(memories, new_memory) ==
    IF memories = <<>> THEN None
    ELSE IF _is_similar_memory(memories[1], new_memory) THEN Some(memories[1])
    ELSE FirstSimilar(Tail(memories), new_memory)

_find_similar_memory(u, new_memory) ==
    FirstSimilar(get_all_active(u.memory_store), new_memory)

_same_fact(existing, new) == existing.object = new.object

abs(n) == IF n < 0 THEN -n ELSE n

_same_time_period(existing, new) == abs(new.chapter_start - existing.chapter_start) <= 5

\* x / y for a float y that is a power of two (the quotient is exact)
FDivPow2(x, y) ==
    IF x.m = <<>> THEN FZero ELSE [m |-> x.m, e |-> x.e - (y.e + MantBits - 1)]

\* the float literals of _calculate_merged_confidence
ExistingWeight == FLit(1, 1)
NewWeight == FLit(1, 1)
SourceBonus == FLit(1, 10)
MergedCap == FLit(1, 1)

_calculate_merged_confidence(existing, new) ==
    FMin(FAdd(FDivPow2(FAdd(FMul(existing.confidence, ExistingWeight),
                            FMul(new.confidence, NewWeight)),
                       FAdd(ExistingWeight, NewWeight)),
              SourceBonus),
         MergedCap)

\* " + ".join(set(sources)) lists two different sources in either order;
\* the sources of the model are all "synopsis"
_merge_provenance(existing_prov, new_prov) ==
    [chapter |-> Min(existing_prov.chapter, new_prov.chapter),
     source |-> IF "synopsis" \in {existing_prov.source, new_prov.source} THEN "synopsis"
                ELSE IF existing_prov.source = new_prov.source THEN existing_prov.source
                ELSE existing_prov.source \o " + " \o new_prov.source]

\* fact_text[:50] + "...": the fact texts of the model are shorter than 50
\* characters
LogText(fact_text) == fact_text \o "..."

\* _log_update with old_memory given as None or Some(memory)
_log_update(log, action, old_memory, new_memory, result_memory) ==
    Append(log, [action |-> action,
                 old_memory_id |-> IF old_memory # None THEN Some(old_memory[1].id) ELSE None,
                 new_memory_id |-> new_memory.id,
                 result_memory_id |-> result_memory.id,
                 chapter_start |-> new_memory.chapter_start,
                 fact_text |-> LogText(new_memory.fact_text)])

\* x or y, for an Optional[int] x
OrElse(x, y) == IF x # None /\ x[1] # 0 THEN x[1] ELSE y

_merge_memories(u, existing, new) ==
    LET finish(merged_memory) ==
            [memory_store |-> upsert(u.memory_store, merged_memory),
             update_log |-> _log_update(u.update_log, "merge", Some(existing), new,
                                        merged_memory),
             result |-> merged_memory]
    IN  finish([id |-> existing.id,
                mem_type |-> existing.mem_type,
                subjects |-> existing.subjects,
                fact_text |-> existing.fact_text,
                predicate |-> existing.predicate,
                object |-> existing.object,
                chapter_start |-> Min(existing.chapter_start, new.chapter_start),
                chapter_end |-> Some(Max(OrElse(existing.chapter_end, existing.chapter_start),
                                         OrElse(new.chapter_end, new.chapter_start))),
                visibility |-> existing.visibility,
                confidence |-> _calculate_merged_confidence(existing, new),
                provenance |-> _merge_provenance(existing.provenance, new.provenance),
                version |-> existing.version + 1,
                supersedes |-> existing.supersedes,
                is_active |-> TRUE,
                superseded_by |-> None,
                update_reason |-> None,
                update_confidence |-> None])

_replace_memory(u, existing_memory, new_memory) ==
    LET finish(existing, new) ==
            [memory_store |-> upsert(upsert(u.memory_store, existing), new),
             update_log |-> _log_update(u.update_log, "replace", Some(existing), new, new),
             result |-> new]
    IN  finish([existing_memory EXCEPT !.is_active = FALSE,
                                       !.chapter_end = Some(new_memory.chapter_start - 1),
                                       !.supersedes = None],
               [new_memory EXCEPT !.supersedes = Some(existing_memory.id),
                                  !.version = existing_memory.version + 1])

_create_new_memory(u, memory) ==
    [memory_store |-> upsert(u.memory_store, memory),
     update_log |-> _log_update(u.update_log, "create", None, memory, memory),
     result |-> memory]

\* update_memory: the updater after the call, the memory and the action it
\* returns
update_memory(u, new_memory) ==
    LET returns(r, action) ==
            [memory_store |-> r.memory_store, update_log |-> r.update_log,
             result |-> r.result, action |-> action]
        decide(existing) ==
            IF existing # None
            THEN IF _same_fact(existing[1], new_memory)
                 THEN IF _same_time_period(existing[1], new_memory)
                      THEN returns(_merge_memories(u, existing[1], new_memory), "merged")
                      ELSE returns(_replace_memory(u, existing[1], new_memory),
                                   "replaced_same_fact")
                 ELSE IF new_memory.chapter_start > existing[1].chapter_start
                      THEN returns(_replace_memory(u, existing[1], new_memory),
                                   "replaced_different_fact")
                      ELSE [memory_store |-> u.memory_store, update_log |-> u.update_log,
                            result |-> existing[1], action |-> "kept_existing"]
            ELSE returns(_create_new_memory(u, new_memory), "created_new")
    IN  decide(_find_similar_memory(u, new_memory))

\* the candidates handed to the updater: one relationship slot stated with
\* two different objects and with its subjects in either order, and a world
\* fact
UpdaterExtractions ==
    { [mem_type |-> "IC", subjects |-> <<"byleth", "dimitri">>,
       predicate |-> "relationship_status", object |-> "started_affair",
       fact_text |-> "Byleth started an affair with Dimitri.", confidence |-> 50],
      [mem_type |-> "IC", subjects |-> <<"dimitri", "byleth">>,
       predicate |-> "relationship_status", object |-> "started_affair",
       fact_text |-> "Dimitri and Byleth are having an affair.", confidence |-> 100],
      [mem_type |-> "IC", subjects |-> <<"byleth", "dimitri">>,
       predicate |-> "relationship_status", object |-> "ended_affair",
       fact_text |-> "Byleth ended the affair with Dimitri.", confidence |-> 100],
      [mem_type |-> "WM", subjects |-> <<"world">>,
       predicate |-> "company_status", object |-> "layoffs_announced",
       fact_text |-> "The company announced layoffs.", confidence |-> 100] }

\* one update_memory call with a memory the extractor made from a sentence
\* of chapter chapter_number
UpdateMemory(memory_data, chapter_number) ==
    /\ processed < MaxRecords
    /\ \E new_memory \in {[_create_memory_unit(memory_data, chapter_number,
                                                uuid4(uuid_counter + 1))
                               EXCEPT !.confidence = Confidence(@)]} :
       \E r \in {update_memory(updater, new_memory)} :
          /\ updater' = [memory_store |-> r.memory_store, update_log |-> r.update_log]
          /\ last_call' = [op |-> "update_memory", memory |-> new_memory,
                           result |-> r.result, action |-> r.action]
    /\ uuid_counter' = uuid_counter + 1
    /\ processed' = processed + 1
    /\ UNCHANGED <<heap, all_memories, chapter_memories, walk>>

UpdaterNext ==
    \E memory_data \in UpdaterExtractions, chapter_number \in ChapterNumbers :
        UpdateMemory(memory_data, chapter_number)

UpdaterSpec == Init /\ [][UpdaterNext]_vars


(***************************************************************************)
(* Canonical keys (eval/utils.py and MemoryUnit.get_key) computed for      *)
(* subject lists of any order.                                             *)
(***************************************************************************)
\* subjects of one memory
MaxSubjects == 3

canonical_key(subjects, predicate, object_val) ==
    Join(sorted(subjects), "::") \o "::" \o predicate \o "::" \o object_val

SubjectLists == UNION {[1..n -> Elems(SubjectOrder)] : n \in 0..MaxSubjects}

\* a caller computes the key of a fact both ways
CanonicalKey(subjects, predicate, object_val) ==
    /\ last_call' = [op |-> "canonical_key", subjects |-> subjects,
                     predicate |-> predicate, object |-> object_val,
                     key |-> canonical_key(subjects, predicate, object_val),
                     unit_key |-> get_key([subjects |-> subjects, predicate |-> predicate,
                                           object |-> object_val])]
    /\ UNCHANGED <<heap, all_memories, chapter_memories, uuid_counter, processed, walk,
                   updater>>

KeyNext ==
    \E subjects \in SubjectLists,
       predicate \in {"relationship_status", "company_status"},
       object_val \in {"started_affair", "layoffs_announced"} :
        CanonicalKey(subjects, predicate, object_val)

KeySpec == Init /\ [][KeyNext]_vars


(***************************************************************************)
(* Python strings taken apart.  A string of the model is an atom; where    *)
(* the code looks inside one (lower(), split(), "in"), it is read as the   *)
(* sequence of its characters, which CharTable lists for every string the  *)
(* model takes apart.                                                      *)
(***************************************************************************)
CharTable ==
    ("The company announced layoffs." :> <<"T", "h", "e", " ", "c", "o", "m", "p", "a", "n", "y", " ", "a", "n", "n", "o", "u", "n", "c", "e", "d", " ", "l", "a", "y", "o", "f", "f", "s", ".">>)
    @@ ("The company will announce layoffs next month" :> <<"T", "h", "e", " ", "c", "o", "m", "p", "a", "n", "y", " ", "w", "i", "l", "l", " ", "a", "n", "n", "o", "u", "n", "c", "e", " ", "l", "a", "y", "o", "f", "f", "s", " ", "n", "e", "x", "t", " ", "m", "o", "n", "t", "h">>)
    @@ ("William joined the company." :> <<"W", "i", "l", "l", "i", "a", "m", " ", "j", "o", "i", "n", "e", "d", " ", "t", "h", "e", " ", "c", "o", "m", "p", "a", "n", "y", ".">>)
    @@ ("Byleth trusts Dimitri" :> <<"B", "y", "l", "e", "t", "h", " ", "t", "r", "u", "s", "t", "s", " ", "D", "i", "m", "i", "t", "r", "i">>)
    @@ ("Dimitri respects Byleth" :> <<"D", "i", "m", "i", "t", "r", "i", " ", "r", "e", "s", "p", "e", "c", "t", "s", " ", "B", "y", "l", "e", "t", "h">>)
    @@ ("Byleth started an affair with Dimitri." :> <<"B", "y", "l", "e", "t", "h", " ", "s", "t", "a", "r", "t", "e", "d", " ", "a", "n", " ", "a", "f", "f", "a", "i", "r", " ", "w", "i", "t", "h", " ", "D", "i", "m", "i", "t", "r", "i", ".">>)
    @@ ("Dimitri and Byleth are having an affair." :> <<"D", "i", "m", "i", "t", "r", "i", " ", "a", "n", "d", " ", "B", "y", "l", "e", "t", "h", " ", "a", "r", "e", " ", "h", "a", "v", "i", "n", "g", " ", "a", "n", " ", "a", "f", "f", "a", "i", "r", ".">>)
    @@ ("Dimitri told the user a secret." :> <<"D", "i", "m", "i", "t", "r", "i", " ", "t", "o", "l", "d", " ", "t", "h", "e", " ", "u", "s", "e", "r", " ", "a", " ", "s", "e", "c", "r", "e", "t", ".">>)
    @@ ("byleth" :> <<"b", "y", "l", "e", "t", "h">>)
    @@ ("dimitri" :> <<"d", "i", "m", "i", "t", "r", "i">>)
    @@ ("user_123" :> <<"u", "s", "e", "r", "_", "1", "2", "3">>)
    @@ ("world" :> <<"w", "o", "r", "l", "d">>)
    @@ ("will" :> <<"w", "i", "l", "l">>)
    @@ ("going to" :> <<"g", "o", "i", "n", "g", " ", "t", "o">>)
    @@ ("plan to" :> <<"p", "l", "a", "n", " ", "t", "o">>)
    @@ ("intend to" :> <<"i", "n", "t", "e", "n", "d", " ", "t", "o">>)
    @@ ("future" :> <<"f", "u", "t", "u", "r", "e">>)
    @@ ("upcoming" :> <<"u", "p", "c", "o", "m", "i", "n", "g">>)
    @@ ("next week" :> <<"n", "e", "x", "t", " ", "w", "e", "e", "k">>)
    @@ ("next month" :> <<"n", "e", "x", "t", " ", "m", "o", "n", "t", "h">>)
    @@ ("next year" :> <<"n", "e", "x", "t", " ", "y", "e", "a", "r">>)
    @@ ("tomorrow" :> <<"t", "o", "m", "o", "r", "r", "o", "w">>)
    @@ ("later" :> <<"l", "a", "t", "e", "r">>)
    @@ ("likes" :> <<"l", "i", "k", "e", "s">>)
    @@ ("hates" :> <<"h", "a", "t", "e", "s">>)
    @@ ("loves" :> <<"l", "o", "v", "e", "s">>)
    @@ ("dislikes" :> <<"d", "i", "s", "l", "i", "k", "e", "s">>)
    @@ ("admires" :> <<"a", "d", "m", "i", "r", "e", "s">>)
    @@ ("despises" :> <<"d", "e", "s", "p", "i", "s", "e", "s">>)
    @@ ("trusts" :> <<"t", "r", "u", "s", "t", "s">>)
    @@ ("distrusts" :> <<"d", "i", "s", "t", "r", "u", "s", "t", "s">>)
    @@ ("respects" :> <<"r", "e", "s", "p", "e", "c", "t", "s">>)
    @@ ("disrespects" :> <<"d", "i", "s", "r", "e", "s", "p", "e", "c", "t", "s">>)
    @@ ("company layoffs" :> <<"c", "o", "m", "p", "a", "n", "y", " ", "l", "a", "y", "o", "f", "f", "s">>)
    @@ ("Byleth trusts" :> <<"B", "y", "l", "e", "t", "h", " ", "t", "r", "u", "s", "t", "s">>)
    @@ ("office relationship secret" :> <<"o", "f", "f", "i", "c", "e", " ", "r", "e", "l", "a", "t", "i", "o", "n", "s", "h", "i", "p", " ", "s", "e", "c", "r", "e", "t">>)
    @@ ("company" :> <<"c", "o", "m", "p", "a", "n", "y">>)
    @@ ("office" :> <<"o", "f", "f", "i", "c", "e">>)
    @@ ("policy" :> <<"p", "o", "l", "i", "c", "y">>)
    @@ ("relationship" :> <<"r", "e", "l", "a", "t", "i", "o", "n", "s", "h", "i", "p">>)
    @@ ("interaction" :> <<"i", "n", "t", "e", "r", "a", "c", "t", "i", "o", "n">>)
    @@ ("meeting" :> <<"m", "e", "e", "t", "i", "n", "g">>)
    @@ ("conversation" :> <<"c", "o", "n", "v", "e", "r", "s", "a", "t", "i", "o", "n">>)
    @@ ("user" :> <<"u", "s", "e", "r">>)
    @@ ("me" :> <<"m", "e">>)
    @@ ("my" :> <<"m", "y">>)
    @@ ("personal" :> <<"p", "e", "r", "s", "o", "n", "a", "l">>)
    @@ ("" :> <<>>)

\* the characters of the string s
Chars(s) == CharTable[s]

UpperCase == <<"A", "B", "C", "D", "E", "F", "G", "H", "I", "J", "K", "L", "M",
               "N", "O", "P", "Q", "R", "S", "T", "U", "V", "W", "X", "Y", "Z">>
LowerCase == <<"a", "b", "c", "d", "e", "f", "g", "h", "i", "j", "k", "l", "m",
               "n", "o", "p", "q", "r", "s", "t", "u", "v", "w", "x", "y", "z">>

LowerChar(c) ==
    IF \E i \in 1..Len(UpperCase) : UpperCase[i] = c
    THEN LowerCase[CHOOSE i \in 1..Len(UpperCase) : UpperCase[i] = c]
    ELSE c

\* str.lower() on a sequence of characters
lower(chars) == [i \in 1..Len(chars) |-> LowerChar(chars[i])]

\* needle in hay, for two sequences of characters
Contains(needle, hay) ==
    \E i \in 0..(Len(hay) - Len(needle)) :
        \A j \in 1..Len(needle) : hay[i + j] = needle[j]

RECURSIVE FirstContained(_, _)
\* "for indicator in indicators: if indicator in text: ... break": the first
\* indicator the text contains, if any
FirstContained(indicators, text) ==
    IF indicators = <<>> THEN None
    ELSE IF Contains(Chars(indicators[1]), text) THEN Some(indicators[1])
    ELSE FirstContained(Tail(indicators), text)

RECURSIVE Concat(_)
\* the lists of a list of lists, one after another
Concat(lists) == IF lists = <<>> THEN <<>> ELSE lists[1] \o Concat(Tail(lists))

RECURSIVE Dedupe(_)
\* the keys a dict gets from a sequence of insertions, in insertion order
Dedupe(keys) ==
    IF keys = <<>> THEN <<>>
    ELSE LET before == Dedupe(SubSeq(keys, 1, Len(keys) - 1))
         IN  IF keys[Len(keys)] \in Elems(before) THEN before
             ELSE Append(before, keys[Len(keys)])

(***************************************************************************)
(* The consistency checks (eval/consistency_eval.py) over a memory store.  *)
(***************************************************************************)
\* the conflict entry check_time_overlap_conflicts appends
time_overlap_conflict(memory1, memory2) ==
    [type |-> "time_overlap_conflict",
     memory1_id |-> memory1.id,
     memory2_id |-> memory2.id,
     canonical_key |-> get_key(memory1),
     memory1_chapter |-> memory1.chapter_start,
     memory2_chapter |-> memory2.chapter_start,
     memory1_fact |-> memory1.fact_text,
     memory2_fact |-> memory2.fact_text,
     description |-> "Same fact appears in chapters " \o ToString(memory1.chapter_start)
                     \o " and " \o ToString(memory2.chapter_start)]

RECURSIVE overlap_scan_any_activity(_, _, _)
\* overlap_scan that does not ask whether the two memories are active
overlap_scan_any_activity(memories, i, j) ==
    IF i > Len(memories) THEN <<>>
    ELSE IF j > Len(memories) THEN overlap_scan_any_activity(memories, i + 1, i + 2)
    ELSE (IF /\ get_key(memories[i]) = get_key(memories[j])
             /\ memories[i].chapter_start # memories[j].chapter_start
          THEN <<time_overlap_conflict(memories[i], memories[j])>>
          ELSE <<>>) \o overlap_scan_any_activity(memories, i, j + 1)

RECURSIVE overlap_scan(_, _, _)
\* the two loops of check_time_overlap_conflicts, standing at memory1 =
\* memories[i] and memory2 = memories[j]: the conflicts appended from there on
overlap_scan(memories, i, j) ==
    IF i > Len(memories) THEN <<>>
    ELSE IF j > Len(memories) THEN overlap_scan(memories, i + 1, i + 2)
    ELSE (IF /\ get_key(memories[i]) = get_key(memories[j])
             /\ memories[i].chapter_start # memories[j].chapter_start
             /\ memories[i].is_active /\ memories[j].is_active
          THEN <<time_overlap_conflict(memories[i], memories[j])>>
          ELSE <<>>) \o overlap_scan(memories, i, j + 1)

check_time_overlap_conflicts(am, h) ==
    overlap_scan([i \in 1..Len(am) |-> h[am[i].ref]], 1, 2)

\* list(memory_store.all_memories.values())
Values(am, h) == [i \in 1..Len(am) |-> h[am[i].ref]]

future_indicators ==
    <<"will", "going to", "plan to", "intend to", "future", "upcoming",
      "next week", "next month", "next year", "tomorrow", "later">>

world_future_leak(memory, indicator) ==
    [type |-> "world_future_leak",
     memory_id |-> memory.id,
     canonical_key |-> get_key(memory),
     chapter |-> memory.chapter_start,
     fact_text |-> memory.fact_text,
     future_indicator |-> indicator,
     description |-> "World memory contains future reference: '" \o indicator \o "'"]

\* leaks_of that reports one leak for every indicator the text contains
leaks_of_every_indicator(memory) ==
    IF memory.mem_type = "WM" /\ memory.is_active
    THEN LET hits == SelectSeq(future_indicators,
                               LAMBDA ind : Contains(Chars(ind), lower(Chars(memory.fact_text))))
         IN  [i \in 1..Len(hits) |-> world_future_leak(memory, hits[i])]
    ELSE <<>>

\* one turn of the loop of check_world_future_leaks: what it appends for
\* one memory
leaks_of(memory) ==
    IF memory.mem_type = "WM" /\ memory.is_active
    THEN LET report(indicator) ==
                 IF indicator = None THEN <<>>
                 ELSE <<world_future_leak(memory, indicator[1])>>
         IN  report(FirstContained(future_indicators, lower(Chars(memory.fact_text))))
    ELSE <<>>

check_world_future_leaks(am, h) ==
    Concat([i \in 1..Len(am) |-> leaks_of(h[am[i].ref])])

\* character_knowledge as the loop of check_crosstalk_violations fills it:
\* one entry per active memory and subject that is a character, in the order
\* of the appends
character_knowledge(memories) ==
    Concat([i \in 1..Len(memories) |->
              IF memories[i].is_active
              THEN LET characters == SelectSeq(memories[i].subjects,
                                               LAMBDA subject : subject # "world" /\ subject # "user_123")
                   IN  [j \in 1..Len(characters) |->
                          [subject |-> characters[j], memory |-> memories[i]]]
              ELSE <<>>])

\* character_knowledge.keys()
knowledge_characters(knowledge) == Dedupe([i \in 1..Len(knowledge) |-> knowledge[i].subject])

\* character_knowledge[character].keys()
knowledge_chapters(knowledge, character) ==
    LET own == SelectSeq(knowledge, LAMBDA e : e.subject = character)
    IN  Dedupe([i \in 1..Len(own) |-> own[i].memory.chapter_start])

\* character_knowledge[character][chapter]
knowledge_memories(knowledge, character, chapter) ==
    LET own == SelectSeq(knowledge, LAMBDA e : /\ e.subject = character
                                              /\ e.memory.chapter_start = chapter)
    IN  [i \in 1..Len(own) |-> own[i].memory]

RECURSIVE sorted_chapters(_)
\* sorted(chapters.keys())
sorted_chapters(chapters) ==
    IF chapters = <<>> THEN <<>>
    ELSE LET least == CHOOSE c \in Elems(chapters) : \A d \in Elems(chapters) : c <= d
         IN  <<least>> \o sorted_chapters(SelectSeq(chapters, LAMBDA c : c # least))

crosstalk_violation(memory, character, chapter, other_char, other_chapter) ==
    [type |-> "crosstalk_violation",
     memory_id |-> memory.id,
     character |-> character,
     chapter |-> chapter,
     referenced_character |-> other_char,
     referenced_chapter |-> other_chapter,
     fact_text |-> memory.fact_text,
     description |-> "Character " \o character \o " at chapter " \o ToString(chapter)
                     \o " references future private information about " \o other_char]

\* crosstalk_of that takes the private memories of every chapter, not only
\* of the later ones
crosstalk_of_any_chapter(knowledge, character, chapter, memory) ==
    LET characters == knowledge_characters(knowledge)
    IN  Concat([c \in 1..Len(characters) |->
          IF characters[c] # character
          THEN LET other_chapters == knowledge_chapters(knowledge, characters[c])
               IN  Concat([k \in 1..Len(other_chapters) |->
                     LET hits == SelectSeq(
                                   knowledge_memories(knowledge, characters[c], other_chapters[k]),
                                   LAMBDA other_memory :
                                       /\ other_memory.mem_type = "C2U"
                                       /\ Contains(lower(Chars(characters[c])),
                                                   lower(Chars(memory.fact_text))))
                     IN  [n \in 1..Len(hits) |->
                            crosstalk_violation(memory, character, chapter,
                                                characters[c], other_chapters[k])]])
          ELSE <<>>])

\* the body of "for memory in chapters[chapter]" of
\* check_crosstalk_violations: what it appends for one memory of a character
crosstalk_of(knowledge, character, chapter, memory) ==
    LET characters == knowledge_characters(knowledge)
    IN  Concat([c \in 1..Len(characters) |->
          IF characters[c] # character
          THEN LET other_chapters == knowledge_chapters(knowledge, characters[c])
               IN  Concat([k \in 1..Len(other_chapters) |->
                     IF other_chapters[k] > chapter
                     THEN LET hits == SelectSeq(
                                        knowledge_memories(knowledge, characters[c], other_chapters[k]),
                                        LAMBDA other_memory :
                                            /\ other_memory.mem_type = "C2U"
                                            /\ Contains(lower(Chars(characters[c])),
                                                        lower(Chars(memory.fact_text))))
                          IN  [n \in 1..Len(hits) |->
                                 crosstalk_violation(memory, character, chapter,
                                                     characters[c], other_chapters[k])]
                     ELSE <<>>])
          ELSE <<>>])

crosstalk_scan(knowledge) ==
    LET characters == knowledge_characters(knowledge)
    IN  Concat([c \in 1..Len(characters) |->
          LET chapters == sorted_chapters(knowledge_chapters(knowledge, characters[c]))
          IN  Concat([k \in 1..Len(chapters) |->
                LET known == knowledge_memories(knowledge, characters[c], chapters[k])
                IN  Concat([m \in 1..Len(known) |->
                              crosstalk_of(knowledge, characters[c], chapters[k], known[m])])])])

check_crosstalk_violations(am, h) == crosstalk_scan(character_knowledge(Values(am, h)))

asymmetric_indicators ==
    <<"likes", "hates", "loves", "dislikes", "admires", "despises",
      "trusts", "distrusts", "respects", "disrespects">>

\* the memories check_symmetry_violations files under a relationship key
is_relationship(memory) ==
    memory.mem_type = "IC" /\ memory.is_active /\ Len(memory.subjects) = 2

\* rel_key of a memory, as the two names of f"{char1}::{char2}"
rel_key(memory) == sorted(memory.subjects)

\* relationships.keys(): the keys in the order they were set
relationship_keys(memories) ==
    LET filed == SelectSeq(memories, is_relationship)
    IN  Dedupe([i \in 1..Len(filed) |-> rel_key(filed[i])])

\* relationships[key]
relationship_memories(memories, key) ==
    SelectSeq(memories, LAMBDA memory : is_relationship(memory) /\ rel_key(memory) = key)

symmetry_violation(memory, key, indicator) ==
    [type |-> "symmetry_violation",
     memory_id |-> memory.id,
     relationship_key |-> Join(key, "::"),
     character1 |-> key[1],
     character2 |-> key[2],
     fact_text |-> memory.fact_text,
     asymmetric_indicator |-> indicator,
     description |-> "Asymmetric relationship: " \o key[1] \o " " \o indicator \o " "
                     \o key[2] \o " but no reciprocal memory found"]

\* symmetry_of that looks at the first memory of every relationship, lone
\* or not
symmetry_of_first_memory(memories, key) ==
    LET filed == relationship_memories(memories, key)
        report(memory, indicator) ==
            IF indicator = None THEN <<>>
            ELSE IF <<key[2], key[1]>> \notin Elems(relationship_keys(memories))
                 THEN <<symmetry_violation(memory, key, indicator[1])>>
                 ELSE <<>>
    IN  report(filed[1], FirstContained(asymmetric_indicators, lower(Chars(filed[1].fact_text))))

\* one turn of "for rel_key, memories in relationships.items()": what it
\* appends for one relationship
symmetry_of(memories, key) ==
    LET filed == relationship_memories(memories, key)
        report(memory, indicator) ==
            IF indicator = None THEN <<>>
            ELSE IF <<key[2], key[1]>> \notin Elems(relationship_keys(memories))
                 THEN <<symmetry_violation(memory, key, indicator[1])>>
                 ELSE <<>>
    IN  IF Len(filed) = 1
        THEN report(filed[1], FirstContained(asymmetric_indicators,
                                             lower(Chars(filed[1].fact_text))))
        ELSE <<>>

symmetry_scan(memories) ==
    LET keys == relationship_keys(memories)
    IN  Concat([i \in 1..Len(keys) |-> symmetry_of(memories, keys[i])])

check_symmetry_violations(am, h) == symmetry_scan(Values(am, h))

\* the facts of the memory files the consistency checks are run on
EvalFacts ==
    { [mem_type |-> "WM", subjects |-> <<"world">>,
       predicate |-> "company_status", object |-> "layoffs_announced",
       fact_text |-> "The company announced layoffs.", confidence |-> 100],
      [mem_type |-> "WM", subjects |-> <<"world">>,
       predicate |-> "company_status", object |-> "layoffs_planned",
       fact_text |-> "The company will announce layoffs next month", confidence |-> 100],
      [mem_type |-> "WM", subjects |-> <<"world">>,
       predicate |-> "company_status", object |-> "new_hire",
       fact_text |-> "William joined the company.", confidence |-> 100],
      [mem_type |-> "IC", subjects |-> <<"byleth", "dimitri">>,
       predicate |-> "trust_level", object |-> "trusts",
       fact_text |-> "Byleth trusts Dimitri", confidence |-> 100],
      [mem_type |-> "IC", subjects |-> <<"dimitri", "byleth">>,
       predicate |-> "respect_level", object |-> "respects",
       fact_text |-> "Dimitri respects Byleth", confidence |-> 50],
      [mem_type |-> "IC", subjects |-> <<"byleth", "dimitri">>,
       predicate |-> "relationship_status", object |-> "started_affair",
       fact_text |-> "Byleth started an affair with Dimitri.", confidence |-> 50],
      [mem_type |-> "IC", subjects |-> <<"byleth", "byleth">>,
       predicate |-> "trust_level", object |-> "trusts",
       fact_text |-> "Byleth trusts Dimitri", confidence |-> 100],
      [mem_type |-> "C2U", subjects |-> <<"dimitri", "user_123">>,
       predicate |-> "shared_secret", object |-> "secret",
       fact_text |-> "Dimitri told the user a secret.", confidence |-> 100],
      [mem_type |-> "C2U", subjects |-> <<"byleth", "user_123">>,
       predicate |-> "trust_level", object |-> "trusts",
       fact_text |-> "Byleth trusts Dimitri", confidence |-> 100] }

\* the lines a memory file may hold: a fact at a chapter, active or not
EvalLines ==
    {[memory_data |-> d, chapter_start |-> c, is_active |-> a] :
        d \in EvalFacts, c \in {1, 2}, a \in BOOLEAN}

\* the memory files of up to MaxLines lines; the line at position i has the
\* id 100 + i
EvalFiles ==
    UNION {{[i \in 1..n |->
               [_create_memory_unit(f[i].memory_data, f[i].chapter_start, 100 + i)
                   EXCEPT !.is_active = f[i].is_active]] :
            f \in [1..n -> EvalLines]} : n \in 0..MaxLines}

\* run_consistency_eval over the loaded store: the four checks and the
\* summary
run_consistency_eval(am, h) ==
    LET results(time_overlap_conflicts, world_future_leaks, crosstalk_violations,
                symmetry_violations) ==
            [time_overlap_conflicts |-> time_overlap_conflicts,
             world_future_leaks |-> world_future_leaks,
             crosstalk_violations |-> crosstalk_violations,
             symmetry_violations |-> symmetry_violations,
             summary |->
                 [total_conflicts |-> Len(time_overlap_conflicts) + Len(world_future_leaks)
                                      + Len(crosstalk_violations) + Len(symmetry_violations),
                  time_overlap_conflicts |-> Len(time_overlap_conflicts),
                  world_future_leaks |-> Len(world_future_leaks),
                  crosstalk_violations |-> Len(crosstalk_violations),
                  symmetry_violations |-> Len(symmetry_violations)]]
    IN  results(check_time_overlap_conflicts(am, h), check_world_future_leaks(am, h),
                check_crosstalk_violations(am, h), check_symmetry_violations(am, h))

\* run_consistency_eval whose time overlap check retires the memories it
\* reports
RunConsistencyEval_retiring ==
    /\ last_call.op = "load_memories"
    /\ last_call' = [op |-> "run_consistency_eval",
                     results |-> run_consistency_eval(all_memories, heap)]
    /\ heap' = [r \in DOMAIN heap |->
                  IF \E i \in 1..Len(last_call'.results.time_overlap_conflicts) :
                        last_call'.results.time_overlap_conflicts[i].memory1_id = heap[r].id
                  THEN [heap[r] EXCEPT !.is_active = FALSE] ELSE heap[r]]
    /\ UNCHANGED <<all_memories, chapter_memories, uuid_counter, processed, walk, updater>>

\* run_consistency_eval(memory_store_path), once the store is loaded
RunConsistencyEval ==
    /\ last_call.op = "load_memories"
    /\ last_call' = [op |-> "run_consistency_eval",
                     results |-> run_consistency_eval(all_memories, heap)]
    /\ UNCHANGED <<heap, all_memories, chapter_memories, uuid_counter, processed, walk,
                   updater>>

EvalNext ==
    \/ \E lines \in EvalFiles : LoadMemories(lines)
    \/ RunConsistencyEval

EvalSpec == Init /\ [][EvalNext]_vars


(***************************************************************************)
(* SimpleMemoryRetriever (retrieval/simple_memory_retriever.py) over a     *)
(* loaded store.                                                           *)
(***************************************************************************)
RECURSIVE split(_)
\* str.split(): the words between runs of blanks
split(chars) ==
    IF chars = <<>> THEN <<>>
    ELSE IF chars[1] = " " THEN split(Tail(chars))
    ELSE LET blanks == {i \in 1..Len(chars) : chars[i] = " "}
             n == IF blanks = {} THEN Len(chars)
                  ELSE (CHOOSE i \in blanks : \A j \in blanks : i <= j) - 1
         IN  <<SubSeq(chars, 1, n)>> \o split(SubSeq(chars, n + 1, Len(chars)))

\* the float literals of the retriever
BaseConfidenceWeight == FLit(3, 10)
ChapterWeight == FLit(25, 100)
SemanticWeight == FLit(25, 100)
TypeWeight == FLit(2, 10)
ExactChapter == FInt(1)
VeryRecent == FLit(8, 10)
ModeratelyRecent == FLit(6, 10)
OldButRelevant == FLit(4, 10)
FutureChapter == FZero
Neutral == FLit(5, 10)
TypeMatch == FInt(1)

\* _calculate_chapter_relevance with the bands in reverse: the older the
\* memory, the higher
_calculate_chapter_relevance_oldest_first(memory, target_chapter) ==
    IF memory.chapter_start = target_chapter THEN OldButRelevant
    ELSE IF memory.chapter_start < target_chapter
         THEN (IF target_chapter - memory.chapter_start <= 3 THEN ModeratelyRecent
               ELSE IF target_chapter - memory.chapter_start <= 10 THEN VeryRecent
               ELSE ExactChapter)
         ELSE FutureChapter

_calculate_chapter_relevance(memory, target_chapter) ==
    IF memory.chapter_start = target_chapter THEN ExactChapter
    ELSE IF memory.chapter_start < target_chapter
         THEN (IF target_chapter - memory.chapter_start <= 3 THEN VeryRecent
               ELSE IF target_chapter - memory.chapter_start <= 10 THEN ModeratelyRecent
               ELSE OldButRelevant)
         ELSE FutureChapter

\* intersection / union of the Jaccard similarity, for the two word sets
jaccard(query_words, memory_words) ==
    IF Cardinality(query_words \cup memory_words) = 0 THEN Neutral
    ELSE FLit(Cardinality(query_words \cap memory_words),
              Cardinality(query_words \cup memory_words))

\* client tells whether ollama.Client() was built when the retriever was
_calculate_semantic_similarity(client, memory, query) ==
    IF Chars(query) = <<>> \/ ~client THEN Neutral
    ELSE IF Elems(split(lower(Chars(query)))) = {} THEN Neutral
    ELSE jaccard(Elems(split(lower(Chars(query)))),
                 Elems(split(lower(Chars(memory.fact_text)))))

world_words == <<"world", "company", "office", "policy">>
relationship_words == <<"relationship", "interaction", "meeting", "conversation">>
user_words == <<"user", "me", "my", "personal">>

\* any(word in query_lower for word in words)
any_word_in(words, query_lower) ==
    \E i \in 1..Len(words) : Contains(Chars(words[i]), query_lower)

_calculate_type_relevance(memory, query) ==
    IF memory.mem_type = "WM" /\ any_word_in(world_words, lower(Chars(query))) THEN TypeMatch
    ELSE IF memory.mem_type = "IC" /\ any_word_in(relationship_words, lower(Chars(query)))
         THEN TypeMatch
    ELSE IF memory.mem_type = "C2U" /\ any_word_in(user_words, lower(Chars(query)))
         THEN TypeMatch
    ELSE Neutral

_calculate_relevance_score(client, memory, query, target_chapter) ==
    FAdd(FAdd(FAdd(FAdd(FZero,
                        FMul(Confidence(memory.confidence), BaseConfidenceWeight)),
                   FMul(_calculate_chapter_relevance(memory, target_chapter), ChapterWeight)),
              FMul(_calculate_semantic_similarity(client, memory, query), SemanticWeight)),
         FMul(_calculate_type_relevance(memory, query), TypeWeight))

RECURSIVE InsertByScore(_, _)
\* the scored entry set behind the entries of a score at least as high
InsertByScore(entries, entry) ==
    IF entries = <<>> THEN <<entry>>
    ELSE IF FLt(entries[1].score, entry.score) THEN <<entry>> \o entries
    ELSE <<entries[1]>> \o InsertByScore(Tail(entries), entry)

\* sort_descending that leaves the list in the order given
sort_as_given(entries) == entries

RECURSIVE sort_descending(_)
\* list.sort(key = score, reverse = True), which is stable
sort_descending(entries) ==
    IF entries = <<>> THEN <<>>
    ELSE InsertByScore(sort_descending(SubSeq(entries, 1, Len(entries) - 1)),
                       entries[Len(entries)])

\* s[:k] for k >= 0
first_k(s, k) == SubSeq(s, 1, IF k < Len(s) THEN k ELSE Len(s))

\* the list scored_memories of the two searches: the references of the
\* memories with their scores
scored_memories(client, h, memories, query, chapter) ==
    [i \in 1..Len(memories) |->
        [ref |-> memories[i],
         score |-> _calculate_relevance_score(client, h[memories[i]], query, chapter)]]

\* the references of a list of scored entries
refs_of(entries) == [i \in 1..Len(entries) |-> entries[i].ref]

retrieve_by_chapter(client, cm, h, chapter, query, k) ==
    IF Chars(query) = <<>>
    THEN LET memories == get_memories_at_chapter(cm, h, chapter)
         IN  refs_of(first_k(sort_descending(
                 [i \in 1..Len(memories) |->
                     [ref |-> memories[i], score |-> Confidence(h[memories[i]].confidence)]]), k))
    ELSE refs_of(first_k(sort_descending(
             scored_memories(client, h, get_memories_at_chapter(cm, h, chapter), query, chapter)), k))

search_memories_at_chapter(client, cm, h, query, chapter, k) ==
    IF Chars(query) = <<>> \/ get_memories_at_chapter(cm, h, chapter) = <<>>
    THEN first_k(get_memories_at_chapter(cm, h, chapter), k)
    ELSE refs_of(first_k(sort_descending(
             scored_memories(client, h, get_memories_at_chapter(cm, h, chapter), query, chapter)), k))

\* the facts of the memory files the retriever is run on
RetrieverFacts ==
    { [mem_type |-> "WM", subjects |-> <<"world">>,
       predicate |-> "company_status", object |-> "layoffs_announced",
       fact_text |-> "The company announced layoffs.", confidence |-> 99],
      [mem_type |-> "IC", subjects |-> <<"byleth", "dimitri">>,
       predicate |-> "trust_level", object |-> "trusts",
       fact_text |-> "Byleth trusts Dimitri", confidence |-> 100],
      [mem_type |-> "IC", subjects |-> <<"dimitri", "byleth">>,
       predicate |-> "respect_level", object |-> "respects",
       fact_text |-> "Dimitri respects Byleth", confidence |-> 50],
      [mem_type |-> "C2U", subjects |-> <<"dimitri", "user_123">>,
       predicate |-> "shared_secret", object |-> "secret",
       fact_text |-> "Dimitri told the user a secret.", confidence |-> 100] }

\* the chapters the memories of these files start at
RetrieverChapters == {1, 2, 16}

\* the memory files of up to MaxLines lines; the line at position i has the
\* id 100 + i
RetrieverFiles ==
    UNION {{[i \in 1..n |->
               _create_memory_unit(f[i].memory_data, f[i].chapter_start, 100 + i)] :
            f \in [1..n -> [memory_data : RetrieverFacts, chapter_start : RetrieverChapters]]} :
           n \in 0..MaxLines}

\* what the callers ask for
Queries == {"", "company layoffs", "Byleth trusts", "office relationship secret"}
TargetChapters == {1, 5, 16}
Ks == 0..MaxLines

\* SimpleMemoryRetriever(memory_store).retrieve_by_chapter(chapter, query, k)
RetrieveByChapter(client, chapter, query, k) ==
    /\ last_call.op = "load_memories"
    /\ last_call' = [op |-> "retrieve_by_chapter", client |-> client, chapter |-> chapter,
                     query |-> query, k |-> k,
                     result |-> retrieve_by_chapter(client, chapter_memories, heap,
                                                    chapter, query, k)]
    /\ UNCHANGED <<heap, all_memories, chapter_memories, uuid_counter, processed, walk,
                   updater>>

\* SimpleMemoryRetriever(memory_store).search_memories_at_chapter(query, chapter, k)
SearchMemoriesAtChapter(client, query, chapter, k) ==
    /\ last_call.op = "load_memories"
    /\ last_call' = [op |-> "search_memories_at_chapter", client |-> client,
                     chapter |-> chapter, query |-> query, k |-> k,
                     result |-> search_memories_at_chapter(client, chapter_memories, heap,
                                                           query, chapter, k)]
    /\ UNCHANGED <<heap, all_memories, chapter_memories, uuid_counter, processed, walk,
                   updater>>

RetrieverNext ==
    \/ \E lines \in RetrieverFiles : LoadMemories(lines)
    \/ \E client \in BOOLEAN, chapter \in TargetChapters, query \in Queries, k \in Ks :
          RetrieveByChapter(client, chapter, query, k)
    \/ \E client \in BOOLEAN, chapter \in TargetChapters, query \in Queries, k \in Ks :
          SearchMemoriesAtChapter(client, query, chapter, k)

RetrieverSpec == Init /\ [][RetrieverNext]_vars


(***************************************************************************)
(* Properties.                                                             *)
(***************************************************************************)
\* the chapters a caller may ask about
QueryChapters == 0..(MaxChapter + 1)

Refs == 1..Len(heap)

\* the objects the id index holds
StoredRefs == {all_memories[i].ref : i \in 1..Len(all_memories)}

QueryAtChapter(c) == get_memories_at_chapter(chapter_memories, heap, c)

\* C1: for every chapter c, get_memories_at_chapter(c) returns no record that
\* starts after c and no record whose chapter_end is set and lies before c.
C1_QueryNeverReturnsFutureOrExpired ==
    \A c \in QueryChapters :
        \A ref \in Elems(QueryAtChapter(c)) :
            /\ heap[ref].chapter_start <= c
            /\ (heap[ref].chapter_end = None \/ heap[ref].chapter_end[1] >= c)

\* a query answers with some record while the store also holds an active
\* record of a later chapter and a closed record whose window ended earlier
C1_Witness ==
    \E c \in QueryChapters :
        /\ QueryAtChapter(c) # <<>>
        /\ \E ref \in StoredRefs : heap[ref].is_active /\ heap[ref].chapter_start > c
        /\ \E ref \in StoredRefs :
              heap[ref].chapter_end # None /\ heap[ref].chapter_end[1] < c

\* C2: for every chapter c, get_memories_at_chapter(c) returns every stored
\* record that is active, starts at or before c and is open or ends at or
\* after c, whichever chapter it starts in.
C2_QueryReturnsEveryVisibleRecord ==
    \A c \in QueryChapters :
        \A ref \in StoredRefs :
            (/\ heap[ref].is_active
             /\ heap[ref].chapter_start <= c
             /\ (heap[ref].chapter_end = None \/ heap[ref].chapter_end[1] >= c))
            => ref \in Elems(QueryAtChapter(c))

\* a record of chapter 7 with no chapter_end is absent at chapter 5 and
\* present at chapter 7 and at a later chapter, next to a record of chapter 1
C2_Witness ==
    \E ref \in StoredRefs :
        /\ heap[ref].chapter_start = 7 /\ heap[ref].chapter_end = None
        /\ ref \notin Elems(QueryAtChapter(5))
        /\ ref \in Elems(QueryAtChapter(7))
        /\ ref \in Elems(QueryAtChapter(MaxChapter + 1))
        /\ \E other \in Elems(QueryAtChapter(MaxChapter + 1)) :
              heap[other].chapter_start = 1

\* C3: after update_existing_memory(existing, candidate, chapter) returns
\* new, existing is inactive, ends at new.chapter_start - 1 and names new as
\* superseded_by, and new names existing as supersedes with the next version.
C3_SupersedeLinksOldAndNew ==
    (last_call.op = "smart_update_or_create" /\ last_call.existing # None) =>
        LET existing == heap[last_call.existing[1]]
            new == heap[last_call.result]
        IN  /\ existing.is_active = FALSE
            /\ existing.chapter_end = Some(new.chapter_start - 1)
            /\ existing.superseded_by = Some(new.id)
            /\ new.supersedes = Some(existing.id)
            /\ new.version = existing.version + 1

\* the last call superseded a record that was itself the result of a
\* supersession
C3_Witness ==
    /\ last_call.op = "smart_update_or_create"
    /\ last_call.existing # None
    /\ heap[last_call.existing[1]].version = 2
    /\ heap[last_call.result].version = 3


\* two records describe the same fact slot: the same subjects in any order,
\* the same predicate and the same object
SameSlot(a, b) ==
    /\ Len(a.subjects) = Len(b.subjects)
    /\ Elems(a.subjects) = Elems(b.subjects)
    /\ a.predicate = b.predicate
    /\ a.object = b.object

\* the stored records a candidate may update: active, of the same slot and
\* of a strictly earlier chapter
Updatable(memory) ==
    {ref \in StoredRefs : /\ heap[ref].is_active
                          /\ SameSlot(heap[ref], memory)
                          /\ heap[ref].chapter_start < memory.chapter_start}

Superseded == last_call.op = "smart_update_or_create" /\ last_call.existing # None

\* C4: after any sequence of smart_update_or_create calls from an empty
\* store, at most one active record per canonical key has chapter_end = null.
C4_OneOpenRecordPerKey ==
    \A r, s \in StoredRefs :
        (/\ heap[r].is_active /\ heap[r].chapter_end = None
         /\ heap[s].is_active /\ heap[s].chapter_end = None
         /\ get_key(heap[r]) = get_key(heap[s]))
        => r = s

\* C5: smart_update_or_create supersedes the update candidate with the
\* highest score if and only if that score reaches the threshold; when the
\* highest score is below the threshold, or there is no update candidate, it
\* creates the candidate as a new record.
C5_SupersedeIffBestScoreReachesThreshold ==
    [][ LET memory == last_call'.memory
            scored == {<<ref, get_update_score(heap[ref], memory)>> : ref \in Updatable(memory)}
            reaches == \E p \in scored : FLe(DefaultUpdateThreshold, p[2])
            new == heap'[last_call'.result]
        IN  /\ Len(heap') = Len(heap) + 1
            /\ last_call'.result = Len(heap')
            /\ IF reaches
               THEN /\ last_call'.existing # None
                    /\ last_call'.action = "updated_existing_score"
                    /\ \E p \in scored :
                          /\ p[1] = last_call'.existing[1]
                          /\ \A o \in scored : FLe(o[2], p[2])
                    /\ new.supersedes = Some(heap[last_call'.existing[1]].id)
                    /\ ~heap'[last_call'.existing[1]].is_active
               ELSE /\ last_call'.existing = None
                    /\ last_call'.action = "created_new"
                    /\ new = [memory EXCEPT !.id = new.id]
                    /\ \A ref \in Refs : heap'[ref] = heap[ref]
      ]_vars

\* the last call superseded the higher-scored of two update candidates that
\* both reached the threshold
C5_Witness ==
    /\ Superseded
    /\ \E other \in StoredRefs :
          /\ heap[other].is_active
          /\ SameSlot(heap[other], last_call.memory)
          /\ heap[other].chapter_start < last_call.memory.chapter_start
          /\ FLe(DefaultUpdateThreshold, get_update_score(heap[other], last_call.memory))
          /\ FLt(get_update_score(heap[other], last_call.memory), last_call.score[1])

\* C6: the update candidates of a new candidate are exactly the stored
\* records that are active, share its canonical key and start in a strictly
\* earlier chapter; a record is never superseded by a candidate of the same
\* or an earlier chapter.
C6_UpdateCandidatesAreActiveSameKeyEarlier ==
    [][ LET memory == last_call'.memory
        IN  /\ Elems(find_all_candidate_memories(Store, memory)) = Updatable(memory)
            /\ last_call'.existing # None =>
                  /\ last_call'.existing[1] \in Updatable(memory)
                  /\ heap[last_call'.existing[1]].chapter_start < memory.chapter_start
      ]_vars

\* the last call superseded a record and left alone an active record of the
\* same key that starts in the candidate's own chapter or later
C6_Witness ==
    /\ Superseded
    /\ \E other \in StoredRefs :
          /\ other # last_call.result
          /\ heap[other].is_active
          /\ SameSlot(heap[other], last_call.memory)
          /\ heap[other].chapter_start >= last_call.memory.chapter_start

\* C7: every record whose chapter_end is set ends at or after its own
\* chapter_start, and exactly one chapter before the chapter_start of the
\* record that superseded it.
C7_ChapterEndMatchesSuccessor ==
    \A ref \in StoredRefs :
        heap[ref].chapter_end # None =>
            /\ heap[ref].chapter_end[1] >= heap[ref].chapter_start
            /\ heap[ref].superseded_by # None
            /\ \E succ \in StoredRefs :
                  /\ heap[succ].id = heap[ref].superseded_by[1]
                  /\ heap[ref].chapter_end[1] = heap[succ].chapter_start - 1

\* two versions of one fact have been closed, one after the other
C7_Witness ==
    \E r, s \in StoredRefs :
        /\ heap[r].chapter_end # None
        /\ heap[s].chapter_end # None
        /\ heap[r].superseded_by = Some(heap[s].id)

RECURSIVE WalkEnds(_, _)
\* following supersedes from id for at most n steps reaches the chain root
\* or an id the store does not hold
WalkEnds(id, n) ==
    IF id = None THEN TRUE
    ELSE IF ~HasId(all_memories, id[1]) THEN TRUE
    ELSE IF n = 0 THEN FALSE
    ELSE LET i == CHOOSE j \in 1..Len(all_memories) : all_memories[j].id = id[1]
         IN  WalkEnds(heap[all_memories[i].ref].supersedes, n - 1)

\* C8: the supersedes relation is acyclic, and no record id is the
\* supersedes target of more than one record.
C8_ChainsAcyclicAndUnbranched ==
    /\ \A ref \in StoredRefs : WalkEnds(Some(heap[ref].id), Len(all_memories))
    /\ \A r, s \in StoredRefs :
          (heap[r].supersedes # None /\ heap[r].supersedes = heap[s].supersedes) => r = s

\* a chain of three versions next to a record that supersedes nothing
C8_Witness ==
    /\ \E r, s, t \in StoredRefs :
          /\ heap[t].supersedes = Some(heap[s].id)
          /\ heap[s].supersedes = Some(heap[r].id)
          /\ heap[r].supersedes = None

\* C9: no record leaves the store, and every smart_update_or_create call
\* adds exactly one record to it.
C9_RecordsNeverDeleted ==
    [][ /\ \A i \in 1..Len(all_memories) : HasId(all_memories', all_memories[i].id)
        /\ Len(all_memories') = Len(all_memories) + 1
      ]_vars

\* the store holds three records, two made by creation and one by a
\* supersession
C9_Witness ==
    /\ Len(all_memories) = 3
    /\ Cardinality({ref \in StoredRefs : heap[ref].supersedes = None}) = 2
    /\ Cardinality({ref \in StoredRefs : heap[ref].supersedes # None}) = 1

\* C10: creating a record leaves every record stored before unchanged;
\* superseding changes, among the records stored before, only is_active,
\* chapter_end and superseded_by of the chosen record.
C10_OnlySupersededRecordChanges ==
    [][ \A ref \in Refs :
          \/ heap'[ref] = heap[ref]
          \/ /\ last_call'.existing = Some(ref)
             /\ heap'[ref] = [heap[ref] EXCEPT !.is_active = heap'[ref].is_active,
                                               !.chapter_end = heap'[ref].chapter_end,
                                               !.superseded_by = heap'[ref].superseded_by]
      ]_vars

\* the last call superseded a record that itself superseded another, next
\* to records it left alone
C10_Witness ==
    /\ Superseded
    /\ heap[last_call.existing[1]].supersedes # None
    /\ Len(heap) >= 3


\* C11: get_memory_evolution(id) returns the records reached by following
\* supersedes backward from id down to the chain root, oldest first (so in
\* ascending chapter order); right after a supersession of a first version
\* it returns [existing, new] for the new record's id.
C11_EvolutionIsChainOldestFirst ==
    /\ \A ref \in StoredRefs :
          LET chain == get_memory_evolution(all_memories, heap, heap[ref].id)
          IN  /\ chain # <<>>
              /\ chain[Len(chain)] = ref
              /\ heap[chain[1]].supersedes = None
              /\ \A i \in 1..(Len(chain) - 1) :
                    /\ heap[chain[i + 1]].supersedes = Some(heap[chain[i]].id)
                    /\ heap[chain[i]].chapter_start < heap[chain[i + 1]].chapter_start
    /\ (Superseded /\ heap[last_call.existing[1]].supersedes = None) =>
          get_memory_evolution(all_memories, heap, heap[last_call.result].id)
              = <<last_call.existing[1], last_call.result>>

\* the last call superseded a first version, and the evolution of the new
\* record is the two of them, next to a record of another chain
C11_Witness ==
    /\ Superseded
    /\ heap[last_call.existing[1]].supersedes = None
    /\ Len(get_memory_evolution(all_memories, heap, heap[last_call.result].id)) = 2
    /\ Len(all_memories) = 3


\* the ids of the records a walk has put in its evolution list
WalkIds == [i \in 1..Len(walk.evolution) |-> heap[walk.evolution[i]].id]

\* C12: get_memory_evolution never goes back to an id it has visited (it
\* fails with ChainCycleError instead), so its walk ends in every store.
C12_EvolutionNeverRevisitsAnId ==
    \A i, j \in 1..Len(walk.evolution) : WalkIds[i] = WalkIds[j] => i = j

\* C13: get_memory_evolution returns a chain only when its walk reached a
\* record with no supersedes link; a walk that meets an id absent from the
\* store fails with DanglingReferenceError and returns nothing.
C13_EvolutionFailsOnAbsentId ==
    walk.pc = "returned" => walk.current_id = None


\* C15: a record whose id is already in the store is refused
\* (DuplicateIdError), so the id index never comes to name another object
\* than the one the chapter index filed under that id.
C15_IdIndexAgreesWithChapterIndex ==
    \A c \in DOMAIN chapter_memories :
        \A ref \in Elems(chapter_memories[c]) :
            /\ HasId(all_memories, heap[ref].id)
            /\ DictGet(all_memories, heap[ref].id) = ref


\* C14: when two or more update candidates tie at the highest score and
\* that score reaches the threshold, the call supersedes none of them (it
\* flags AmbiguousUpdateError): no supersession leaves behind another update
\* candidate of the same score as the one it chose.
C14_TieIsNotSilentlyResolved ==
    Superseded =>
        ~ \E other \in StoredRefs :
              /\ other # last_call.existing[1]
              /\ can_update(heap[other], last_call.memory)
              /\ FLe(last_call.score[1], get_update_score(heap[other], last_call.memory))
              /\ FLe(get_update_score(heap[other], last_call.memory), last_call.score[1])


\* C16: every update_memory call appends exactly one entry to the update
\* log, whatever it decides, and the entry names the action, the ids
\* involved and the chapter.
C16_EveryDecisionIsJournaled ==
    [][ /\ Len(updater'.update_log) = Len(updater.update_log) + 1
        /\ LET entry == updater'.update_log[Len(updater'.update_log)]
           IN  /\ entry.new_memory_id = last_call'.memory.id
               /\ entry.result_memory_id = last_call'.result.id
               /\ entry.chapter_start = last_call'.memory.chapter_start
               /\ entry.action \in {"create", "merge", "replace", "kept_existing"}
      ]_vars


\* the lists that hold the elements of s in another order
Reorderings(s) ==
    {[i \in 1..Len(s) |-> s[f[i]]] :
        f \in {g \in [1..Len(s) -> 1..Len(s)] : \A i, j \in 1..Len(s) : g[i] = g[j] => i = j}}

\* C17: get_key and canonical_key give the same key for every permutation
\* of the subjects, and agree with each other.
C17_KeyIgnoresSubjectOrder ==
    last_call.op = "canonical_key" =>
        /\ last_call.key = last_call.unit_key
        /\ \A subjects \in Reorderings(last_call.subjects) :
              /\ canonical_key(subjects, last_call.predicate, last_call.object) = last_call.key
              /\ get_key([subjects |-> subjects, predicate |-> last_call.predicate,
                          object |-> last_call.object]) = last_call.unit_key

\* the key of three subjects given in descending order lists them ascending
C17_Witness ==
    /\ last_call.op = "canonical_key"
    /\ last_call.subjects = <<"world", "dimitri", "byleth">>
    /\ last_call.key = "byleth::dimitri::world::relationship_status::started_affair"


\* the keys a caller asks the timeline of: those of the facts of the
\* synopses, and a key no record has
TimelineKeys == {get_key(m) : m \in Extractions} \cup {"nobody::none::none"}

Timeline(key) == get_memory_timeline(all_memories, heap, key)

\* C18: get_memory_timeline(key) returns exactly the stored records whose
\* canonical key is key, active or superseded, each once, in ascending order
\* of chapter_start.
C18_TimelineIsAllRecordsOfKeySorted ==
    \A key \in TimelineKeys :
        /\ Elems(Timeline(key)) = {ref \in StoredRefs : get_key(heap[ref]) = key}
        /\ Len(Timeline(key)) = Cardinality(Elems(Timeline(key)))
        /\ \A i \in 1..(Len(Timeline(key)) - 1) :
              heap[Timeline(key)[i]].chapter_start <= heap[Timeline(key)[i + 1]].chapter_start

\* a timeline of three records, one of them superseded, whose order differs
\* from the order in which the store received them
C18_Witness ==
    \E key \in TimelineKeys :
        /\ Len(Timeline(key)) = 3
        /\ \E i \in 1..3 : ~heap[Timeline(key)[i]].is_active
        /\ Timeline(key) # get_memory_timeline_unsorted(all_memories, heap, key)


\* C19: a call that creates stores the candidate as a new record under an
\* id the store did not hold, with chapter_start equal to the chapter of the
\* call, version 1, is_active true and chapter_end null.
C19_CreateStoresFreshOpenFirstVersion ==
    [][ last_call'.action = "created_new" =>
          LET new == heap'[last_call'.result]
          IN  /\ ~HasId(all_memories, new.id)
              /\ \A ref \in Refs : heap[ref].id # new.id
              /\ HasId(all_memories', new.id)
              /\ DictGet(all_memories', new.id) = last_call'.result
              /\ last_call'.result \in Elems(chapter_memories'[last_call'.chapter])
              /\ new.chapter_start = last_call'.chapter
              /\ new.version = 1
              /\ new.is_active
              /\ new.chapter_end = None
              /\ new.fact_text = last_call'.memory.fact_text
      ]_vars

\* the last call created a record of a key of which the store already held
\* an active record and a superseded one
C19_Witness ==
    /\ last_call.op = "smart_update_or_create"
    /\ last_call.action = "created_new"
    /\ \E r, t \in StoredRefs :
          /\ r # last_call.result /\ t # last_call.result
          /\ get_key(heap[r]) = get_key(heap[last_call.result])
          /\ get_key(heap[t]) = get_key(heap[last_call.result])
          /\ heap[r].is_active
          /\ ~heap[t].is_active


\* the conflicts reported for the pair of stored records r and s
ConflictsOf(r, s) ==
    SelectSeq(check_time_overlap_conflicts(all_memories, heap),
              LAMBDA c : {c.memory1_id, c.memory2_id} = {heap[r].id, heap[s].id})

\* C20: check_time_overlap_conflicts reports exactly one conflict for every
\* pair of distinct records that are both active, share a canonical key and
\* differ in chapter_start, and none for a pair with an inactive record.
C20_OneConflictPerActivePairOfKey ==
    \A r, s \in StoredRefs :
        r # s =>
            /\ (/\ heap[r].is_active /\ heap[s].is_active
                /\ get_key(heap[r]) = get_key(heap[s])
                /\ heap[r].chapter_start # heap[s].chapter_start)
               => /\ Len(ConflictsOf(r, s)) = 1
                  /\ ConflictsOf(r, s)[1].canonical_key = get_key(heap[r])
                  /\ {ConflictsOf(r, s)[1].memory1_chapter, ConflictsOf(r, s)[1].memory2_chapter}
                        = {heap[r].chapter_start, heap[s].chapter_start}
            /\ (~heap[r].is_active \/ ~heap[s].is_active) => ConflictsOf(r, s) = <<>>

\* the store holds two active records of one key from different chapters,
\* which are reported, and a superseded record of that key, which is not
C20_Witness ==
    \E r, s, t \in StoredRefs :
        /\ r # s
        /\ heap[r].is_active /\ heap[s].is_active /\ ~heap[t].is_active
        /\ get_key(heap[r]) = get_key(heap[s])
        /\ get_key(heap[t]) = get_key(heap[s])
        /\ heap[r].chapter_start # heap[s].chapter_start
        /\ heap[t].chapter_start # heap[s].chapter_start
        /\ Len(check_time_overlap_conflicts(all_memories, heap)) = 1


\* C21: whenever the store holds two distinct active records of one
\* canonical key, check_time_overlap_conflicts reports at least one conflict.
C21_OverlapScanFlagsEveryKeyBreach ==
    (\E r, s \in StoredRefs :
        /\ r # s
        /\ heap[r].is_active /\ heap[s].is_active
        /\ get_key(heap[r]) = get_key(heap[s]))
    => check_time_overlap_conflicts(all_memories, heap) # <<>>


HasAsymmetricTerm(memory) ==
    \E i \in 1..Len(asymmetric_indicators) :
        Contains(Chars(asymmetric_indicators[i]), lower(Chars(memory.fact_text)))

\* the stored records other than r that are active two-subject
\* INTERCHARACTER records of the unordered pair of r
PairMates(r) ==
    {s \in StoredRefs \ {r} :
        /\ is_relationship(heap[s])
        /\ Elems(heap[s].subjects) = Elems(heap[r].subjects)}

\* the stored records, of any type and activity, whose two subjects are
\* those of r in reverse order
ReversePairRecords(r) ==
    {s \in StoredRefs :
        /\ Len(heap[s].subjects) = 2
        /\ heap[s].subjects = <<heap[r].subjects[2], heap[r].subjects[1]>>}

SymmetryReported(r) ==
    \E i \in 1..Len(last_call.results.symmetry_violations) :
        last_call.results.symmetry_violations[i].memory_id = heap[r].id

CharactersOf(memory) == Elems(memory.subjects) \ {"world", "user_123"}

\* the text of the memory names the character
Names(memory, character) ==
    Contains(lower(Chars(character)), lower(Chars(memory.fact_text)))

\* the character has an active CHARACTER_TO_USER record that starts after
\* the chapter
HasLaterPrivateRecord(character, chapter) ==
    \E s \in StoredRefs :
        /\ heap[s].is_active
        /\ heap[s].mem_type = "C2U"
        /\ character \in CharactersOf(heap[s])
        /\ heap[s].chapter_start > chapter

\* the record is one of a character and its text names another character
\* that has a later active private record
NamesLaterPrivateHolder(r) ==
    \E character \in CharactersOf(heap[r]) :
        \E other_char \in UNION {CharactersOf(heap[s]) : s \in StoredRefs} :
            /\ other_char # character
            /\ Names(heap[r], other_char)
            /\ HasLaterPrivateRecord(other_char, heap[r].chapter_start)

CrosstalkReported(r) ==
    \E i \in 1..Len(last_call.results.crosstalk_violations) :
        last_call.results.crosstalk_violations[i].memory_id = heap[r].id

\* every crosstalk report refers to a chapter after the one of the record
\* it reports
CrosstalkReportsAreOfLaterChapters ==
    \A i \in 1..Len(last_call.results.crosstalk_violations) :
        /\ last_call.results.crosstalk_violations[i].referenced_chapter
              > last_call.results.crosstalk_violations[i].chapter
        /\ HasLaterPrivateRecord(last_call.results.crosstalk_violations[i].referenced_character,
                                 last_call.results.crosstalk_violations[i].chapter)

\* C24, as stated: a record of a character is flagged exactly when its text
\* names another character that has an active CHARACTER_TO_USER record of a
\* later chapter, and no report refers to a character whose private records
\* are all of the record's chapter or earlier.
C24_CrosstalkFlagsEveryNamingRecord ==
    last_call.op = "run_consistency_eval" =>
        /\ \A r \in StoredRefs : CrosstalkReported(r) <=> NamesLaterPrivateHolder(r)
        /\ CrosstalkReportsAreOfLaterChapters

\* C24, amended: an active record of a character is flagged exactly when its
\* text names another character that has an active CHARACTER_TO_USER record
\* of a later chapter; an inactive record is never flagged; no report refers
\* to a character whose private records are all of the record's chapter or
\* earlier.
C24_CrosstalkFlagsActiveNamingRecords ==
    last_call.op = "run_consistency_eval" =>
        /\ \A r \in StoredRefs :
              CrosstalkReported(r) <=> (heap[r].is_active /\ NamesLaterPrivateHolder(r))
        /\ CrosstalkReportsAreOfLaterChapters

\* the checks ran over a record of chapter 1 that names Dimitri and a
\* private record of Dimitri of chapter 2, and flagged the first
C24_Witness ==
    /\ last_call.op = "run_consistency_eval"
    /\ \E r, s \in StoredRefs :
          /\ "byleth" \in CharactersOf(heap[r]) /\ Names(heap[r], "dimitri")
          /\ heap[r].chapter_start = 1
          /\ heap[s].mem_type = "C2U" /\ "dimitri" \in CharactersOf(heap[s])
          /\ heap[s].chapter_start = 2
          /\ CrosstalkReported(r)


\* the text of the memory contains a futurity marker
HasFutureMarker(memory) ==
    \E i \in 1..Len(future_indicators) :
        Contains(Chars(future_indicators[i]), lower(Chars(memory.fact_text)))

\* the reports of world_future_leaks about the record
LeakReports(r) ==
    {i \in 1..Len(last_call.results.world_future_leaks) :
        last_call.results.world_future_leaks[i].memory_id = heap[r].id}

\* C25: check_world_future_leaks reports a record exactly when it is an
\* active WORLD record whose text contains a futurity marker, reports it
\* once, and names a marker the text contains; inactive records, records of
\* other types and texts without a marker are not reported.
C25_OneLeakPerActiveWorldRecordWithMarker ==
    last_call.op = "run_consistency_eval" =>
        \A r \in StoredRefs :
            /\ LeakReports(r) # {} <=>
                  (heap[r].is_active /\ heap[r].mem_type = "WM" /\ HasFutureMarker(heap[r]))
            /\ Cardinality(LeakReports(r)) <= 1
            /\ \A i \in LeakReports(r) :
                  Contains(Chars(last_call.results.world_future_leaks[i].future_indicator),
                           lower(Chars(heap[r].fact_text)))

\* the checks ran over the two WORLD texts of the specification, both
\* active: the one with "will" and "next month" is reported once, the one
\* without a marker is not
C25_Witness ==
    /\ last_call.op = "run_consistency_eval"
    /\ \E r, s \in StoredRefs :
          /\ heap[r].is_active /\ heap[s].is_active
          /\ heap[r].fact_text = "The company will announce layoffs next month"
          /\ heap[s].fact_text = "The company announced layoffs."
          /\ Cardinality(LeakReports(r)) = 1
          /\ LeakReports(s) = {}


\* the last call was one of the two searches of the retriever
IsRankerCall == last_call.op \in {"retrieve_by_chapter", "search_memories_at_chapter"}

\* the records visible at the chapter of the last call
VisibleAtCall == get_memories_at_chapter(chapter_memories, heap, last_call.chapter)

\* the relevance score of a record for the query and chapter of the last call
ScoreAtCall(r) ==
    _calculate_relevance_score(last_call.client, heap[r], last_call.query, last_call.chapter)

\* the result holds at most k records, all of them visible, by score from
\* high to low, and leaves out no visible record of a higher score than
\* one it holds
TopKByScore ==
    /\ Len(last_call.result) <= last_call.k
    /\ Elems(last_call.result) \subseteq Elems(VisibleAtCall)
    /\ \A i, j \in 1..Len(last_call.result) :
          i < j => FLe(ScoreAtCall(last_call.result[j]), ScoreAtCall(last_call.result[i]))
    /\ \A r \in Elems(VisibleAtCall) \ Elems(last_call.result) :
          \A i \in 1..Len(last_call.result) :
              ~FLt(ScoreAtCall(last_call.result[i]), ScoreAtCall(r))

\* the same with the confidence in the place of the score
TopKByConfidence ==
    /\ Len(last_call.result) <= last_call.k
    /\ Elems(last_call.result) \subseteq Elems(VisibleAtCall)
    /\ \A i, j \in 1..Len(last_call.result) :
          i < j => heap[last_call.result[j]].confidence <= heap[last_call.result[i]].confidence
    /\ \A r \in Elems(VisibleAtCall) \ Elems(last_call.result) :
          \A i \in 1..Len(last_call.result) :
              heap[r].confidence <= heap[last_call.result[i]].confidence

\* C26, as stated: for every query, the empty one too, every chapter and
\* every k >= 0, retrieve_by_chapter and search_memories_at_chapter return
\* at most k records by relevance score from high to low, and leave out no
\* visible record of a strictly higher score than a returned one.
C26_RankerReturnsTopKByScore == IsRankerCall => TopKByScore

\* C26, amended: that holds for every query that is not empty; with the
\* empty query retrieve_by_chapter returns the at most k visible records of
\* the highest confidence, by confidence from high to low, and
\* search_memories_at_chapter the first k visible records in the order of
\* the store.
C26_RankerReturnsTopKByScoreOfNonEmptyQuery ==
    /\ (IsRankerCall /\ last_call.query # "") => TopKByScore
    /\ (last_call.op = "retrieve_by_chapter" /\ last_call.query = "") => TopKByConfidence
    /\ (last_call.op = "search_memories_at_chapter" /\ last_call.query = "")
          => last_call.result = first_k(VisibleAtCall, last_call.k)

\* a search with a query for one record out of two visible ones returned
\* the second of the store, whose score is the higher
C26_Witness ==
    /\ last_call.op = "search_memories_at_chapter"
    /\ last_call.query # "" /\ last_call.k = 1
    /\ Len(VisibleAtCall) = 2
    /\ last_call.result = <<VisibleAtCall[2]>>
    /\ FLt(ScoreAtCall(VisibleAtCall[1]), ScoreAtCall(VisibleAtCall[2]))


\* C27: no result of the two searches for chapter c holds a record that
\* starts after c, and no record they score gets the chapter relevance of a
\* future chapter.
C27_RankerNeverSeesFutureRecords ==
    IsRankerCall =>
        /\ \A i \in 1..Len(last_call.result) :
              heap[last_call.result[i]].chapter_start <= last_call.chapter
        /\ \A r \in Elems(VisibleAtCall) :
              /\ heap[r].chapter_start <= last_call.chapter
              /\ _calculate_chapter_relevance(heap[r], last_call.chapter) # FutureChapter

\* a search with a query for chapter 1, with room for two records, over a
\* store of a record of chapter 1 and a record of a later chapter returned
\* the first only
C27_Witness ==
    /\ IsRankerCall
    /\ last_call.query # "" /\ last_call.k = 2 /\ last_call.chapter = 1
    /\ Len(last_call.result) = 1
    /\ \E r \in StoredRefs : heap[r].is_active /\ heap[r].chapter_start > 1


Punctuation == {".", ",", "!", "?", ";", ":"}

\* the words of a text in lower case, as the retriever splits them
WordsOf(text) == Elems(split(lower(Chars(text))))

\* the same words without their punctuation marks
StrippedWordsOf(text) ==
    {SelectSeq(word, LAMBDA c : c \notin Punctuation) : word \in WordsOf(text)}

\* C28: for one query and target chapter, a record that starts at the
\* target chapter, has the higher confidence and shares a word with the
\* query (its punctuation marks set aside) scores strictly higher than a
\* record that starts 15 chapters earlier, has the lower confidence and
\* shares no word with the query, whatever the types of the two.
C28_ExactConfidentOverlappingOutranksOld ==
    IsRankerCall =>
        \A a, b \in StoredRefs :
            ( /\ heap[a].chapter_start = last_call.chapter
              /\ heap[b].chapter_start = last_call.chapter - 15
              /\ heap[a].confidence > heap[b].confidence
              /\ StrippedWordsOf(heap[a].fact_text) \cap StrippedWordsOf(last_call.query) # {}
              /\ WordsOf(heap[b].fact_text) \cap WordsOf(last_call.query) = {} )
            => FLt(ScoreAtCall(b), ScoreAtCall(a))

\* a search for "office relationship secret" at chapter 16 over a private
\* record of chapter 16 that tells of a secret and a world record of
\* chapter 1 of lower confidence, whose type the query asks for
C28_Witness ==
    /\ IsRankerCall
    /\ last_call.query = "office relationship secret" /\ last_call.chapter = 16
    /\ \E a, b \in StoredRefs :
          /\ heap[a].chapter_start = 16 /\ heap[b].chapter_start = 1
          /\ heap[a].mem_type = "C2U" /\ heap[b].mem_type = "WM"
          /\ heap[a].confidence > heap[b].confidence
          /\ StrippedWordsOf(heap[a].fact_text) \cap StrippedWordsOf(last_call.query) # {}
          /\ WordsOf(heap[b].fact_text) \cap WordsOf(last_call.query) = {}
          /\ _calculate_type_relevance(heap[a], last_call.query) = Neutral
          /\ _calculate_type_relevance(heap[b], last_call.query) = TypeMatch


\* ten thousand times the score the formula of the specification gives, in
\* exact integer arithmetic: confidences are in hundredths
ExactUpdateScore(existing, candidate) ==
    Max(0, Min(10000,
        30 * candidate.confidence
        + Min(2000, 500 * (candidate.chapter_start - existing.chapter_start))
        + (IF candidate.confidence > existing.confidence THEN 2000 ELSE 0)
        + (IF existing.chapter_start < candidate.chapter_start - 5 THEN 1000 ELSE 0)))

\* the two floats differ by no more than 2^-50, the rounding of a few
\* additions of numbers below 1
NearlyEqual(x, y) ==
    /\ FLe(x, FAdd(y, FRound(BFromInt(1), -50)))
    /\ FLe(y, FAdd(x, FRound(BFromInt(1), -50)))

\* C29: for every stored record and every candidate submitted,
\* get_update_score is, up to the rounding of the float additions,
\* 0.3 * confidence of the candidate + min(0.2, 0.05 * chapters between the
\* two) + 0.2 if the candidate is the more confident + 0.1 if the record is
\* more than 5 chapters older, clamped to [0, 1], when the record can be
\* updated by the candidate, and exactly 0 when it cannot; the score the
\* call reports for the record it supersedes is that number.
C29_UpdateScoreFollowsFormula ==
    [][ /\ \A ref \in 1..Len(heap) :
              LET agrees(score) ==
                      IF can_update(heap[ref], last_call'.memory)
                      THEN NearlyEqual(score,
                                       FLit(ExactUpdateScore(heap[ref], last_call'.memory), 10000))
                      ELSE score = FZero
              IN  agrees(get_update_score(heap[ref], last_call'.memory))
        /\ last_call'.existing # None =>
              NearlyEqual(last_call'.score[1],
                          FLit(ExactUpdateScore(heap[last_call'.existing[1]], last_call'.memory),
                               10000)) ]_vars

\* the last call superseded a record more than 5 chapters older and less
\* confident than the candidate, at the full score of 0.3 + 0.2 + 0.2 + 0.1
C29_Witness ==
    /\ Superseded
    /\ heap[last_call.existing[1]].chapter_start < last_call.memory.chapter_start - 5
    /\ heap[last_call.existing[1]].confidence < last_call.memory.confidence
    /\ NearlyEqual(last_call.score[1], FLit(8, 10))


\* C30: once a record is superseded by a successor that starts at chapter
\* n, get_memories_at_chapter(c) returns neither of the two for any c < n,
\* chapters inside the window [chapter_start, chapter_end] of the superseded
\* record included; and no record it returns for any chapter has a
\* chapter_end.
C30_SupersededAndSuccessorHiddenBeforeUpdate ==
    /\ \A r, s \in StoredRefs :
          (heap[r].superseded_by # None /\ heap[s].id = heap[r].superseded_by[1]) =>
              \A c \in QueryChapters :
                  c < heap[s].chapter_start =>
                      /\ r \notin Elems(QueryAtChapter(c))
                      /\ s \notin Elems(QueryAtChapter(c))
    /\ \A c \in QueryChapters :
          \A ref \in Elems(QueryAtChapter(c)) : heap[ref].chapter_end = None

\* a record of chapter 1 was superseded at chapter 7: chapter 2 lies in its
\* window, and the query for chapter 2 returns neither it nor its successor,
\* while the query for chapter 7 returns the successor
C30_Witness ==
    \E r, s \in StoredRefs :
        /\ heap[r].superseded_by = Some(heap[s].id)
        /\ heap[r].chapter_start = 1 /\ heap[r].chapter_end = Some(6)
        /\ heap[s].chapter_start = 7
        /\ r \notin Elems(QueryAtChapter(2))
        /\ s \notin Elems(QueryAtChapter(2))
        /\ s \in Elems(QueryAtChapter(7))


\* the memories of the updater's store
UpdaterMemories == Elems(updater.memory_store)

\* C31: update_memory deactivates a stored record only for a candidate of a
\* later chapter, and no deactivated record ends before it starts.
C31_ReplacedOnlyByLaterChapter ==
    [][ /\ \A i \in 1..Len(updater.memory_store) :
              (updater.memory_store[i].is_active /\ ~updater'.memory_store[i].is_active)
                  => last_call'.memory.chapter_start > updater.memory_store[i].chapter_start
        /\ \A m \in Elems(updater'.memory_store) :
              (~m.is_active /\ m.chapter_end # None) => m.chapter_end[1] >= m.chapter_start
      ]_vars


\* active stored records of the candidate's key that start one chapter before it
OneChapterEarlier(memory) ==
    {r \in StoredRefs : /\ heap[r].is_active
                        /\ get_key(heap[r]) = get_key(memory)
                        /\ memory.chapter_start = heap[r].chapter_start + 1}

C33_LinksAndFlagsAgree ==
    /\ \A r \in StoredRefs :
          /\ (~heap[r].is_active) <=> (heap[r].superseded_by # None)
          /\ (heap[r].superseded_by # None) <=> (heap[r].chapter_end # None)
          /\ heap[r].superseded_by # None => HasId(all_memories, heap[r].superseded_by[1])
          /\ heap[r].supersedes # None => HasId(all_memories, heap[r].supersedes[1])
    /\ \A r, s \in StoredRefs :
          (heap[r].superseded_by = Some(heap[s].id)) <=> (heap[s].supersedes = Some(heap[r].id))

\* a record was superseded by a record that was superseded in its turn
C33_Witness ==
    \E r, s, t \in StoredRefs :
        /\ heap[r].superseded_by = Some(heap[s].id)
        /\ heap[s].superseded_by = Some(heap[t].id)
        /\ heap[t].is_active

\* C34: the version of every stored record is the length of the evolution
\* read from its id, and the version of a record is one more than the
\* version of the record it supersedes.
C34_VersionIsEvolutionLength ==
    \A r \in StoredRefs :
        /\ heap[r].version = Len(get_memory_evolution(all_memories, heap, heap[r].id))
        /\ heap[r].supersedes # None =>
              /\ HasId(all_memories, heap[r].supersedes[1])
              /\ heap[r].version
                    = heap[DictGet(all_memories, heap[r].supersedes[1])].version + 1

\* a third version is stored, whose evolution holds three records
C34_Witness ==
    \E r \in StoredRefs :
        /\ heap[r].version = 3
        /\ Len(get_memory_evolution(all_memories, heap, heap[r].id)) = 3

\* C38: get_update_score is at most 0.8 for every stored record and candidate,
\* no stored record carries the update reason high_confidence_update, and an
\* update is given the reason low_confidence_update only when its score is
\* exactly the float 0.6.
C38_UpdateScoreIsAtMostHighScore ==
    [][ /\ \A r \in StoredRefs :
              FLe(get_update_score(heap[r], last_call'.memory), HighScore)
        /\ \A r \in 1..Len(heap') :
              heap'[r].update_reason # Some("high_confidence_update")
        /\ last_call'.action = "updated_existing_score" =>
              /\ FLe(last_call'.score[1], HighScore)
              /\ FLe(DefaultUpdateThreshold, last_call'.score[1])
              /\ heap'[last_call'.result].update_reason = Some("low_confidence_update")
                    => last_call'.score[1] = ModerateScore
              /\ heap'[last_call'.result].update_reason
                    \in {Some("low_confidence_update"), Some("moderate_update")}
      ]_vars

\* an update of score exactly 0.6 was given the reason low_confidence_update;
\* the record it superseded came from an update of the highest score there
\* is, 0.3 + 0.2 + 0.2 + 0.1, which was given the reason moderate_update
C38_Witness ==
    /\ last_call.op = "smart_update_or_create"
    /\ last_call.action = "updated_existing_score"
    /\ last_call.score = Some(ModerateScore)
    /\ heap[last_call.result].update_reason = Some("low_confidence_update")
    /\ \E r, o \in StoredRefs :
          /\ last_call.existing = Some(r)
          /\ heap[r].update_reason = Some("moderate_update")
          /\ heap[r].supersedes = Some(heap[o].id)
          /\ heap[r].confidence = 100
          /\ heap[o].confidence < 100
          /\ heap[r].chapter_start > heap[o].chapter_start + 5

\* the places (chapter, position) at which the chapter index holds ref
PlacesOf(ref) ==
    {p \in {<<c, i>> : c \in DOMAIN chapter_memories, i \in 1..MaxRecords} :
        /\ p[2] <= Len(chapter_memories[p[1]])
        /\ chapter_memories[p[1]][p[2]] = ref}

\* C39: every record of the id index is held by the chapter index exactly
\* once, in the list of its chapter_start, and the chapter index holds no
\* record that the id index lacks.
C39_IndexesHoldSameRecords ==
    /\ \A ref \in StoredRefs :
          /\ Cardinality(PlacesOf(ref)) = 1
          /\ \A p \in PlacesOf(ref) : p[1] = heap[ref].chapter_start
    /\ \A c \in DOMAIN chapter_memories :
          /\ Len(chapter_memories[c]) <= MaxRecords
          /\ \A ref \in Elems(chapter_memories[c]) : ref \in StoredRefs
    /\ Cardinality(StoredRefs) = Len(all_memories)

\* three records are stored, two of them in the list of one chapter and one,
\* made by a supersession, in the list of another
C39_Witness ==
    /\ Len(all_memories) = 3
    /\ \E c, d \in DOMAIN chapter_memories :
          /\ c # d
          /\ Len(chapter_memories[c]) = 2
          /\ \E ref \in Elems(chapter_memories[d]) : heap[ref].supersedes # None

\* the slot of a memory of the updater: its type, the set of its subjects,
\* its predicate and its visibility
UpdaterSlot(m) == <<m.mem_type, Elems(m.subjects), m.predicate, m.visibility>>

\* C35: the updater's store never holds two active records of one slot,
\* whatever their objects.
C35_OneActiveRecordPerSlot ==
    \A i, j \in 1..Len(updater.memory_store) :
        (/\ i # j
         /\ updater.memory_store[i].is_active
         /\ updater.memory_store[j].is_active)
        => UpdaterSlot(updater.memory_store[i]) # UpdaterSlot(updater.memory_store[j])

\* the store holds a replaced record, the active record of another object
\* that replaced it, and an active record of another slot
C35_Witness ==
    \E a, b, c \in UpdaterMemories :
        /\ ~a.is_active /\ b.is_active /\ c.is_active
        /\ UpdaterSlot(a) = UpdaterSlot(b)
        /\ a.object # b.object
        /\ b.supersedes = Some(a.id)
        /\ UpdaterSlot(c) # UpdaterSlot(b)

\* C36: a replacement leaves the supersedes back-reference of the replaced
\* record as it was, so that the chain from the new record still leads to
\* the earliest version: no update_memory call changes the supersedes of a
\* record stored before.
C36_ReplacedRecordKeepsBackReference ==
    [][ \A i \in 1..Len(updater.memory_store) :
            updater'.memory_store[i].supersedes = updater.memory_store[i].supersedes
      ]_vars

\* C37: a merge into an active record with no chapter_end leaves a record of
\* the same id that is active and still has no chapter_end.
C37_MergedRecordStaysOpen ==
    [][ last_call'.action = "merged" =>
            \A i \in 1..Len(updater.memory_store) :
                (/\ updater.memory_store[i].id = last_call'.result.id
                 /\ updater.memory_store[i].is_active
                 /\ updater.memory_store[i].chapter_end = None)
                => /\ updater'.memory_store[i].id = updater.memory_store[i].id
                   /\ updater'.memory_store[i].is_active
                   /\ updater'.memory_store[i].chapter_end = None
      ]_vars

====
